---- MODULE Spec2Model ----
(***************************************************************************)
(* A model of the dialer availability monitor: the tick loop of            *)
(* checker.rs (Checker::check_loop / check_all / check_http / check_ping / *)
(* mark_ok / mark_err) and the identity store (materialize).               *)
(*                                                                         *)
(* Time is a discrete clock.  The async steps of the tokio runtime run as  *)
(* soon as a worker thread is free (AdvanceClock lets time pass only when  *)
(* no such step is pending); network I/O, the blocking hostname lookup and *)
(* the blocking database write take an arbitrary amount of time.           *)
(***************************************************************************)
EXTENDS Integers, Sequences, FiniteSets, TLC

VARIABLES
    interval,   \* config.interval, in clock units
    kind,       \* kind[c]: "http", "ping_ip" (literal address) or "ping_host"
    nworkers,   \* worker threads of the async runtime
    horizon,    \* how far the run is followed: [ticks |-> .., time |-> ..]
    clock,      \* the current time
    spc,        \* where check_loop is: "idle", "await", "sleep", "returned"
    tick,       \* number of ticks started
    now,        \* Instant::now() taken at the start of the current tick
    wake,       \* when the inter-tick sleep ends
    elapsed,    \* now.elapsed() measured after check_all of the last tick
    sleepDur,   \* the duration handed to tokio::time::sleep
    logged,     \* attempts whose failure check_all logged
    task,       \* task[n][c]: the task of check c spawned by tick n
    records,    \* the rows of the results table, in insertion order
    checksTbl,  \* the rows of the checks table, in insertion order
    nextId,     \* the next autoincrement id of the checks table
    call,       \* call[p]: the materialize call of caller p
    rets,       \* what the materialize calls returned so far
    ncalls,     \* number of materialize calls begun
    req,        \* the metrics query being handled: [start, end, last, now]
    resp,       \* what handle_metrics answered
    conns,      \* the attempts that hold a pooled database connection
    config,     \* the configured checks: [http |-> names, ping |-> names]
    done,       \* the configured entries Checker::new has gone through
    checks,     \* Checker.checks: the checks built so far, in order
    phase,      \* where Checker::new is: "new", "ready" or "failed"
    app         \* App::run, its two background tasks and the checker's two

cfgVars == <<interval, kind, nworkers, horizon>>
schedVars == <<spc, tick, now, wake, elapsed, sleepDur, logged>>
matVars == <<checksTbl, nextId, call, rets, ncalls>>
qryVars == <<req, resp>>
setupVars == <<config, done, checks, phase>>
vars == <<interval, kind, nworkers, horizon, clock, spc, tick, now, wake, elapsed,
          sleepDur, logged, task, records, checksTbl, nextId, call, rets, ncalls,
          req, resp, conns, config, done, checks, phase, app>>

----------------------------------------------------------------------------
(* Bounds of the model. *)
NumChecks == 2
MaxWorkers == 2
(* the identity store: NumCallers callers making MaxCalls calls in all *)
NumCallers == 2
MaxCalls == 4
(* the tick loop: MaxTicks ticks of LoopInterval, followed up to LoopTime *)
MaxTicks == 2
LoopInterval == 1
LoopTime == 2
(* one tick: intervals up to MaxInterval, followed up to MaxTime *)
MaxInterval == 2
MaxTime == 4

Checks == 1..NumChecks
Ticks == 1..MaxTicks
CheckKinds == {"http", "ping_ip", "ping_host"}

(* Option<T>: None or Some(x). *)
None == {}
Some(x) == {x}

----------------------------------------------------------------------------
(* The check tasks. *)

(* pc: where the task is; deadline: when its timeout elapses; start: when  *)
(* its request was sent; out: the outcome of its probe; ms: the latency;   *)
(* late: the outcome came after the deadline; res: what the task returned; *)
(* code: how the status of the http response compares with the expected    *)
(* code of the check; ips: what lookup_host returned; addr: the address    *)
(* the echo request is sent to.                                            *)
Blank ==
    [pc |-> "none", deadline |-> 0, start |-> 0, out |-> "", ms |-> 0,
     late |-> FALSE, res |-> "", code |-> "", ips |-> None, addr |-> ""]

T(n, c) == task[n][c]

SetTask(n, c, rec) == [task EXCEPT ![n][c] = rec]

(* A worker thread is free unless every worker sits in a blocking          *)
(* dns_lookup::lookup_host call made directly from an async task.          *)
WorkerFree ==
    Cardinality({a \in Ticks \X Checks : T(a[1], a[2]).pc = "resolving"}) < nworkers

(* format!("{err:?}") of a string: the Debug form, in double quotes. *)
DebugFmt(s) == "\"" \o s \o "\""

(* A subtraction that does not saturate. *)
SaturatingSub_Plain(a, b) == a - b

(* Duration::saturating_sub *)
SaturatingSub(a, b) == IF a > b THEN a - b ELSE 0

(* The first poll of the task spawned for a check of kind k at time t      *)
(* (Checker::check -> check_http / check_ping): the timeout of one         *)
(* interval is armed and the probe begins.  An http probe may fail to      *)
(* build its client or request; a ping probe of a literal address starts   *)
(* its echo request; a ping probe of a host name first calls the blocking  *)
(* lookup_host on the worker thread.  A task may also panic.               *)
StartHows(k) == IF k = "http" THEN {"go", "build_err", "panic"} ELSE {"go", "panic"}

CheckStart(k, how, t) ==
    IF how = "panic" THEN [Blank EXCEPT !.pc = "finished", !.res = "panic"]
    ELSE IF how = "build_err"
    THEN [Blank EXCEPT !.pc = "writing", !.out = "build http client"]
    ELSE IF k = "ping_host"
    THEN [Blank EXCEPT !.pc = "resolving", !.deadline = t + interval]
    ELSE IF k = "ping_ip"
    THEN [Blank EXCEPT !.pc = "probing", !.deadline = t + interval, !.start = t,
                       !.addr = "literal"]
    ELSE [Blank EXCEPT !.pc = "probing", !.deadline = t + interval, !.start = t]

(* lookup_host returned r at time t in the task whose state is s: a        *)
(* resolution error and a result without an IPv4 address end the probe     *)
(* with an error; with an address the echo request is sent and is pending, *)
(* and tokio's Timeout, which polls its future before its deadline, then   *)
(* reports Elapsed when the deadline has passed meanwhile.                 *)
(* What lookup_host may return: an error, or the addresses of the host,    *)
(* each of the IPv4 or the IPv6 family.                                    *)
LookupErr == [ok |-> FALSE, addrs |-> <<>>]

LookupResults ==
    {LookupErr,
     [ok |-> TRUE, addrs |-> <<"v6a">>],
     [ok |-> TRUE, addrs |-> <<"v6a", "v4a", "v4b">>]}

IsIpv4(a) == a \in {"v4a", "v4b"}

(* An address choice that takes the first address of any family. *)
FirstIpv4_AnyFamily(addrs) ==
    IF addrs = <<>> THEN None ELSE Some(addrs[1])

(* ips.into_iter().filter(|ip| ip.is_ipv4()).next() *)
FirstIpv4(addrs) ==
    LET hits == {i \in DOMAIN addrs : IsIpv4(addrs[i])}
    IN  IF hits = {} THEN None ELSE Some(addrs[CHOOSE i \in hits : \A j \in hits : i <= j])

AfterLookup(s, r, t) ==
    IF ~r.ok
    THEN [Blank EXCEPT !.pc = "writing", !.out = "lookup host", !.late = t > s.deadline,
                       !.ips = Some(r)]
    ELSE IF FirstIpv4(r.addrs) = None
    THEN [Blank EXCEPT !.pc = "writing", !.out = "no ip for host", !.late = t > s.deadline,
                       !.ips = Some(r)]
    ELSE IF t >= s.deadline
    THEN [Blank EXCEPT !.pc = "writing", !.out = "timeout", !.late = TRUE]
    ELSE [s EXCEPT !.pc = "probing", !.start = t, !.ips = Some(r),
                   !.addr = CHOOSE a \in FirstIpv4(r.addrs) : TRUE]

(* The network operation of a probe of kind k completed with r at time t.  *)
(* An http response arrives with the status the check expects ("ok") or    *)
(* with another one ("unexpected"): execute returns Ok for both, and       *)
(* nothing compares the status with Http.code.                             *)
IoOutcomes(k) == IF k = "http" THEN {"ok", "unexpected", "err"} ELSE {"ok", "err"}

IoResult(s, k, r, t) ==
    [s EXCEPT !.pc = "ready",
              !.out = IF r \in {"ok", "unexpected"} THEN "ok"
                      ELSE IF k = "http" THEN "request" ELSE "ping failed",
              !.ms = t - s.start,
              !.late = t > s.deadline,
              !.code = IF k # "http" \/ r = "err" THEN ""
                       ELSE IF r = "ok" THEN "expected" ELSE "other",
              !.ips = None,
              !.addr = ""]

(* The task is polled with its probe complete: the match on the probe's    *)
(* result.  check_http measures start.elapsed() in this poll; surge_ping   *)
(* returns the round trip it measured itself.                              *)
ProbeDone(s, k, t) ==
    [Blank EXCEPT !.pc = "writing", !.out = s.out, !.late = s.late, !.code = s.code,
                  !.ms = IF s.out # "ok" THEN 0
                         ELSE IF k = "http" THEN t - s.start ELSE s.ms]

(* The timeout of the task elapsed before its probe completed. *)
ProbeElapsed(s) == [Blank EXCEPT !.pc = "writing", !.out = "timeout", !.late = TRUE]

(* The rows mark_ok and mark_err insert; epoch is the column's default,    *)
(* the time of the insert.                                                 *)
EpochDefault(t) == t

MarkOk(id, ms, t) ==
    [check_id |-> id, epoch |-> EpochDefault(t), ms |-> Some(ms), err |-> None]

(* An error row that also carries a latency of zero. *)
MarkErr_WithLatency(id, msg, t) ==
    [check_id |-> id, epoch |-> EpochDefault(t), ms |-> Some(0), err |-> Some(DebugFmt(msg))]

MarkErr(id, msg, t) ==
    [check_id |-> id, epoch |-> EpochDefault(t), ms |-> None, err |-> Some(DebugFmt(msg))]

(* A match whose timeout branch writes nothing. *)
OutcomeRows_DropTimeout(id, s, t) ==
    IF s.out = "ok" THEN <<MarkOk(id, s.ms, t)>>
    ELSE IF s.out = "timeout" THEN <<>>
    ELSE <<MarkErr(id, s.out, t)>>

(* The row written for the outcome of a task, if any. *)
OutcomeRows(id, s, t) ==
    IF s.out = "ok" THEN <<MarkOk(id, s.ms, t)>> ELSE <<MarkErr(id, s.out, t)>>

(* A step of the async runtime is pending: a task or the scheduler can be  *)
(* polled.                                                                 *)
Runnable ==
    \/ spc = "idle" /\ tick < horizon.ticks
    \/ spc = "sleep" /\ clock >= wake
    \/ spc = "await" /\ \A c \in Checks : T(tick, c).pc \in {"finished", "joined"}
    \/ spc = "await" /\ \E c \in Checks : T(tick, c).pc = "finished"
    \/ \E n \in Ticks, c \in Checks :
          \/ T(n, c).pc \in {"spawned", "ready"}
          \/ T(n, c).pc = "probing" /\ clock >= T(n, c).deadline

(* The runtime has nothing to poll, or no worker thread to poll it with:   *)
(* only then does time pass or an external event arrive.                   *)
Quiescent == ~(WorkerFree /\ Runnable)

(* A task that takes its connection before its probe and keeps it. *)
HoldsConn_FromStart(s) == s.pc \in {"resolving", "probing", "ready", "writing"}

(* with_conn: the closure run on the blocking pool takes a connection of   *)
(* the pool when it starts and drops it when it returns; a task is in      *)
(* that closure while it writes its record, and nowhere else.              *)
HoldsConn(s) == s.pc = "writing"

ConnsAfter(n, c, s) ==
    IF HoldsConn(s) THEN conns \cup {<<n, c>>} ELSE conns \ {<<n, c>>}

TaskStart(n, c) ==
    /\ T(n, c).pc = "spawned"
    /\ WorkerFree
    /\ \E how \in StartHows(kind[c]) :
          task' = SetTask(n, c, CheckStart(kind[c], how, clock))
    /\ conns' = ConnsAfter(n, c, task'[n][c])
    /\ UNCHANGED <<cfgVars, app, setupVars, schedVars, matVars, qryVars, clock, records>>

LookupReturn(n, c) ==
    /\ T(n, c).pc = "resolving"
    /\ Quiescent
    /\ \E r \in LookupResults :
          task' = SetTask(n, c, AfterLookup(T(n, c), r, clock))
    /\ conns' = ConnsAfter(n, c, task'[n][c])
    /\ UNCHANGED <<cfgVars, app, setupVars, schedVars, matVars, qryVars, clock, records>>

IoComplete(n, c) ==
    /\ T(n, c).pc = "probing"
    /\ Quiescent
    /\ \E r \in IoOutcomes(kind[c]) :
          task' = SetTask(n, c, IoResult(T(n, c), kind[c], r, clock))
    /\ UNCHANGED <<cfgVars, app, setupVars, conns, schedVars, matVars, qryVars, clock, records>>

PollReady(n, c) ==
    /\ T(n, c).pc = "ready"
    /\ WorkerFree
    /\ task' = SetTask(n, c, ProbeDone(T(n, c), kind[c], clock))
    /\ conns' = ConnsAfter(n, c, task'[n][c])
    /\ UNCHANGED <<cfgVars, app, setupVars, schedVars, matVars, qryVars, clock, records>>

TimeoutFires(n, c) ==
    /\ T(n, c).pc = "probing"
    /\ clock >= T(n, c).deadline
    /\ WorkerFree
    /\ task' = SetTask(n, c, ProbeElapsed(T(n, c)))
    /\ conns' = ConnsAfter(n, c, task'[n][c])
    /\ UNCHANGED <<cfgVars, app, setupVars, schedVars, matVars, qryVars, clock, records>>

(* with_conn: the insert runs on the blocking pool and succeeds or fails   *)
(* with a storage error; the task then returns Ok or that error.           *)
DbDone(n, c) ==
    /\ T(n, c).pc = "writing"
    /\ Quiescent
    /\ \E ok \in BOOLEAN :
          /\ records' = IF ok THEN records \o OutcomeRows(c, T(n, c), clock)
                        ELSE records
          /\ task' = SetTask(n, c, [Blank EXCEPT !.pc = "finished",
                                                 !.res = IF ok THEN "ok" ELSE "err"])
    /\ conns' = ConnsAfter(n, c, task'[n][c])
    /\ UNCHANGED <<cfgVars, app, setupVars, schedVars, matVars, qryVars, clock>>

----------------------------------------------------------------------------
(* The scheduler: Checker::check_loop and Checker::check_all. *)

(* A join that propagates a panic of the task with the ? operator. *)
JoinOutcome_BailOnPanic(res) ==
    IF res = "ok" THEN [log |-> FALSE, bail |-> FALSE]
    ELSE IF res = "panic" THEN [log |-> FALSE, bail |-> TRUE]
    ELSE [log |-> TRUE, bail |-> FALSE]

(* A join that propagates the error a task returned with the ? operator. *)
JoinOutcome_BailOnErr(res) ==
    IF res = "ok" THEN [log |-> FALSE, bail |-> FALSE]
    ELSE IF res = "err" THEN [log |-> FALSE, bail |-> TRUE]
    ELSE [log |-> TRUE, bail |-> FALSE]

(* check_all's match on a joined task's result. *)
JoinOutcome(res) ==
    IF res = "ok" THEN [log |-> FALSE, bail |-> FALSE]
    ELSE [log |-> TRUE, bail |-> FALSE]

(* A check_all that stops waiting at the first task joined. *)
CheckAllDone_Any == \E c \in Checks : T(tick, c).pc = "joined"

(* join_next() returns None: every task of the tick was joined. *)
CheckAllDone == \A c \in Checks : T(tick, c).pc = "joined"

TickStart ==
    /\ spc = "idle"
    /\ tick < horizon.ticks
    /\ WorkerFree
    /\ tick' = tick + 1
    /\ now' = clock
    /\ task' = [task EXCEPT ![tick + 1] = [c \in Checks |-> [Blank EXCEPT !.pc = "spawned"]]]
    /\ spc' = "await"
    /\ UNCHANGED <<cfgVars, app, setupVars, conns, matVars, qryVars, clock, records, wake, elapsed, sleepDur, logged>>

JoinNext(c) ==
    /\ spc = "await"
    /\ WorkerFree
    /\ T(tick, c).pc = "finished"
    /\ LET o == JoinOutcome(T(tick, c).res) IN
          /\ logged' = IF o.log THEN logged \cup {<<tick, c>>} ELSE logged
          /\ IF o.bail
             THEN /\ spc' = "returned"
                  /\ task' = [task EXCEPT ![tick] =
                                 [d \in Checks |->
                                     IF d = c THEN [T(tick, c) EXCEPT !.pc = "joined"]
                                     ELSE IF T(tick, d).pc = "joined" THEN T(tick, d)
                                     ELSE [Blank EXCEPT !.pc = "aborted"]]]
             ELSE /\ spc' = spc
                  /\ task' = SetTask(tick, c, [T(tick, c) EXCEPT !.pc = "joined"])
    /\ UNCHANGED <<cfgVars, app, setupVars, conns, matVars, qryVars, clock, records, tick, now, wake, elapsed, sleepDur>>

CheckAllReturn ==
    /\ spc = "await"
    /\ WorkerFree
    /\ CheckAllDone
    /\ elapsed' = clock - now
    /\ sleepDur' = SaturatingSub(interval, clock - now)
    /\ wake' = clock + sleepDur'
    /\ spc' = "sleep"
    /\ UNCHANGED <<cfgVars, app, setupVars, conns, matVars, qryVars, clock, records, tick, now, logged, task>>

(* A check_loop without the loop: it returns when its sleep ends. *)
Wake_Returns ==
    /\ spc = "sleep"
    /\ clock >= wake
    /\ WorkerFree
    /\ spc' = "returned"
    /\ UNCHANGED <<cfgVars, app, setupVars, conns, matVars, qryVars, clock, records, tick, now, wake, elapsed, sleepDur,
                   logged, task>>

Wake ==
    /\ spc = "sleep"
    /\ clock >= wake
    /\ WorkerFree
    /\ spc' = "idle"
    /\ UNCHANGED <<cfgVars, app, setupVars, conns, matVars, qryVars, clock, records, tick, now, wake, elapsed, sleepDur,
                   logged, task>>

AdvanceClock ==
    /\ clock < horizon.time
    /\ Quiescent
    /\ clock' = clock + 1
    /\ UNCHANGED <<cfgVars, app, setupVars, conns, schedVars, matVars, qryVars, task, records>>

(* The order in which the kinds of the configured checks are enumerated:  *)
(* the checks are interchangeable, so configurations are drawn up to a     *)
(* permutation of the checks.                                              *)
KindRank(k) == IF k = "http" THEN 1 ELSE IF k = "ping_ip" THEN 2 ELSE 3

KindConfigs ==
    {k \in [Checks -> CheckKinds] :
        \A c, d \in Checks : c <= d => KindRank(k[c]) <= KindRank(k[d])}

(* Checker::new is not followed: the checks are those of kind. *)
SetupIdle ==
    /\ config = [http |-> {}, ping |-> {}]
    /\ done = {}
    /\ checks = <<>>
    /\ phase = "ready"

(* Before App::run is called: nothing is spawned.  A task is where it is   *)
(* (pc) and the error it returned (val); the checker task also holds its   *)
(* own two tasks, listen and loop, and the first of them to finish.        *)
NoApp == [pc |-> "new", ret |-> None, order |-> <<>>,
          checker |-> [pc |-> "unspawned", val |-> None],
          api |-> [pc |-> "unspawned", val |-> None],
          listen |-> "unspawned", loop |-> "unspawned", first |-> None]

SchedStart ==
    /\ kind \in KindConfigs
    /\ nworkers \in 1..MaxWorkers
    /\ clock = 0
    /\ spc = "idle"
    /\ tick = 0
    /\ now = 0
    /\ wake = 0
    /\ elapsed = 0
    /\ sleepDur = 0
    /\ logged = {}
    /\ task = [n \in Ticks |-> [c \in Checks |-> Blank]]
    /\ records = <<>>
    /\ conns = {}

----------------------------------------------------------------------------
(* The identity store: Checker::materialize / Db::materialize.  The        *)
(* closure runs two statements on one pooled connection, outside any       *)
(* transaction: the select, and when it finds no row the insert.           *)

Callers == 1..NumCallers
Names == {"foo", "bar"}
Kinds == {"http", "ping"}

IdleCall == [pc |-> "idle", name |-> "", kind |-> ""]

(* A lookup that matches the name and forgets the kind. *)
Lookup_ByName(tbl, name, k) ==
    LET hits == {i \in DOMAIN tbl : tbl[i].name = name} IN
    IF hits = {} THEN None
    ELSE Some(tbl[CHOOSE i \in hits : \A j \in hits : i <= j].id)

(* select id from checks where name=?1 and kind=?2, .optional() *)
Lookup(tbl, name, k) ==
    LET hits == {i \in DOMAIN tbl : tbl[i].name = name /\ tbl[i].kind = k} IN
    IF hits = {} THEN None
    ELSE Some(tbl[CHOOSE i \in hits : \A j \in hits : i <= j].id)

(* The checks table rejects a second row with the same (name, kind). *)
UniqueViolation(tbl, name, k) ==
    \E i \in DOMAIN tbl : tbl[i].name = name /\ tbl[i].kind = k

(* What a call returned: res is Some(id) for Ok(id) and None for an error; *)
(* dup tells that the insert was rejected as a duplicate.                  *)
Returned(p, c, res, dup) ==
    [caller |-> p, name |-> c.name, kind |-> c.kind, res |-> res, dup |-> dup]

MatBegin(p, name, k) ==
    /\ call[p].pc = "idle"
    /\ ncalls < MaxCalls
    /\ ncalls' = ncalls + 1
    /\ call' = [call EXCEPT ![p] = [pc |-> "select", name |-> name, kind |-> k]]
    /\ UNCHANGED <<checksTbl, nextId, rets>>

MatSelect(p) ==
    /\ call[p].pc = "select"
    /\ LET id == Lookup(checksTbl, call[p].name, call[p].kind) IN
          IF id # None
          THEN /\ rets' = Append(rets, Returned(p, call[p], id, FALSE))
               /\ call' = [call EXCEPT ![p] = IdleCall]
          ELSE /\ rets' = rets
               /\ call' = [call EXCEPT ![p].pc = "insert"]
    /\ UNCHANGED <<checksTbl, nextId, ncalls>>

MatInsert(p) ==
    /\ call[p].pc = "insert"
    /\ IF UniqueViolation(checksTbl, call[p].name, call[p].kind)
       THEN /\ rets' = Append(rets, Returned(p, call[p], None, TRUE))
            /\ UNCHANGED <<checksTbl, nextId>>
       ELSE /\ checksTbl' = Append(checksTbl,
                                [id |-> nextId, name |-> call[p].name, kind |-> call[p].kind])
            /\ nextId' = nextId + 1
            /\ rets' = Append(rets, Returned(p, call[p], Some(nextId), FALSE))
    /\ call' = [call EXCEPT ![p] = IdleCall]
    /\ UNCHANGED ncalls

MatIdle ==
    /\ checksTbl = <<>>
    /\ nextId = 1
    /\ call = [p \in Callers |-> IdleCall]
    /\ rets = <<>>
    /\ ncalls = 0

(* The scheduler does not run while the identity store is exercised. *)
SchedIdle ==
    /\ SchedStart
    /\ kind = [c \in Checks |-> "http"]
    /\ nworkers = 1
    /\ interval = 1
    /\ horizon = [ticks |-> 0, time |-> 0]

schedAll == <<cfgVars, app, setupVars, conns, schedVars, clock, task, records>>

(* Concurrent callers. *)
MatNext ==
    \/ \E p \in Callers, name \in Names, k \in Kinds :
          MatBegin(p, name, k) /\ UNCHANGED <<schedAll, qryVars>>
    \/ \E p \in Callers : MatSelect(p) /\ UNCHANGED <<schedAll, qryVars>>
    \/ \E p \in Callers : MatInsert(p) /\ UNCHANGED <<schedAll, qryVars>>

(* Sequential calls: a call begins only when no other is in progress. *)
MatNextSeq ==
    \/ \E p \in Callers, name \in Names, k \in Kinds :
          /\ \A q \in Callers : call[q].pc = "idle"
          /\ MatBegin(p, name, k)
          /\ UNCHANGED <<schedAll, qryVars>>
    \/ \E p \in Callers : MatSelect(p) /\ UNCHANGED <<schedAll, qryVars>>
    \/ \E p \in Callers : MatInsert(p) /\ UNCHANGED <<schedAll, qryVars>>


----------------------------------------------------------------------------
(* The metrics query: handle_metrics of web.rs.  A DateTime counts units   *)
(* of 1/Subsec second since the Unix epoch; the epoch column of the        *)
(* results table counts whole seconds.                                     *)

(* Bounds of the query model: the clock runs over QuerySpan seconds from   *)
(* QueryFirstEpoch, and at most MaxRows records are written.               *)
Subsec == 2
QueryFirstEpoch == 99
QuerySpan == 2
MaxRows == 3

(* Constants of web.rs. *)
DefaultWindowSecs == 3600
ShortWindowSecs == 600
FineResolution == 1
CoarseResolution == 5

(* Duration::from_secs *)
Secs(n) == n * Subsec

(* Option::unwrap_or *)
UnwrapOr(o, d) == IF o = None THEN d ELSE CHOOSE x \in o : TRUE

NoReq == [start |-> None, end |-> None, last |-> None, now |-> 0]

NoResp ==
    [status |-> "none", res |-> 0, start |-> 0, end |-> 0, rows |-> <<>>, series |-> <<>>]

(* A window in which a start or an end that was supplied wins over last. *)
WindowOf_StartWins(q) ==
    LET s0 == IF q.start # None \/ q.last = None THEN q.start
              ELSE Some(q.now - UnwrapOr(q.last, 0))
        e0 == IF q.end # None \/ q.last = None THEN q.end ELSE Some(q.now)
    IN  [start |-> UnwrapOr(s0, q.now - Secs(DefaultWindowSecs)),
         end |-> UnwrapOr(e0, q.now)]

(* The window of a query: last, when given, replaces start and end; a      *)
(* missing start is now - 1 h and a missing end is now.                    *)
WindowOf(q) ==
    LET s0 == IF q.last # None THEN Some(q.now - UnwrapOr(q.last, 0)) ELSE q.start
        e0 == IF q.last # None THEN Some(q.now) ELSE q.end
    IN  [start |-> UnwrapOr(s0, q.now - Secs(DefaultWindowSecs)),
         end |-> UnwrapOr(e0, q.now)]

(* A resolution whose short windows stop short of ShortWindowSecs. *)
Resolution_Exclusive(window) ==
    IF window < Secs(ShortWindowSecs) THEN FineResolution ELSE CoarseResolution

(* DurationExt::resolution, in seconds *)
Resolution(window) ==
    IF window <= Secs(ShortWindowSecs) THEN FineResolution ELSE CoarseResolution

(* DateTimeExt::epoch_secs: an error before the epoch, else whole seconds. *)
EpochSecs(dt) == IF dt < 0 THEN None ELSE Some(dt \div Subsec)

(* WHERE r.epoch >= :start_time AND r.epoch <= :end_time *)
InWindow(r, s, e) == r.epoch >= s /\ r.epoch <= e

(* r.epoch / :rollup * :rollup *)
Bucket(epoch, rollup) == (epoch \div rollup) * rollup

(* FROM results r JOIN checks c ON r.check_id = c.id WHERE ... *)
Joined(s, e) ==
    {i \in DOMAIN records :
        /\ InWindow(records[i], s, e)
        /\ \E j \in DOMAIN checksTbl : checksTbl[j].id = records[i].check_id}

IdentityOf(id) == checksTbl[CHOOSE j \in DOMAIN checksTbl : checksTbl[j].id = id]

(* GROUP BY r.check_id, c.name, c.kind, bucket *)
GroupKeys(s, e, rollup) ==
    {<<records[i].check_id, Bucket(records[i].epoch, rollup)>> : i \in Joined(s, e)}

GroupOf(key, s, e, rollup) ==
    {i \in Joined(s, e) :
        records[i].check_id = key[1] /\ Bucket(records[i].epoch, rollup) = key[2]}

RECURSIVE SumMs(_)
SumMs(S) ==
    IF S = {} THEN 0
    ELSE LET i == CHOOSE x \in S : TRUE IN UnwrapOr(records[i].ms, 0) + SumMs(S \ {i})

(* An aggregate whose average divides by the number of all the rows. *)
Aggregate_AvgOverAll(key, s, e, rollup) ==
    LET mem == GroupOf(key, s, e, rollup)
        oks == {i \in mem : records[i].ms # None}
        ms(i) == UnwrapOr(records[i].ms, 0)
    IN  [id |-> key[1],
         name |-> IdentityOf(key[1]).name,
         kind |-> IdentityOf(key[1]).kind,
         bucket |-> key[2],
         min |-> IF oks = {} THEN None
                 ELSE Some(ms(CHOOSE i \in oks : \A j \in oks : ms(i) <= ms(j))),
         avg |-> IF oks = {} THEN None ELSE Some(SumMs(oks) \div Cardinality(mem)),
         max |-> IF oks = {} THEN None
                 ELSE Some(ms(CHOOSE i \in oks : \A j \in oks : ms(i) >= ms(j))),
         count |-> Cardinality(mem),
         errs |-> Cardinality({i \in mem : records[i].err # None})]

(* MIN, AVG and MAX skip the rows whose ms is NULL and are NULL when no    *)
(* row is left; CAST(AVG(..) AS INTEGER) truncates; COUNT(r.err) counts    *)
(* the rows whose err is not NULL.                                         *)
Aggregate(key, s, e, rollup) ==
    LET mem == GroupOf(key, s, e, rollup)
        oks == {i \in mem : records[i].ms # None}
        ms(i) == UnwrapOr(records[i].ms, 0)
    IN  [id |-> key[1],
         name |-> IdentityOf(key[1]).name,
         kind |-> IdentityOf(key[1]).kind,
         bucket |-> key[2],
         min |-> IF oks = {} THEN None
                 ELSE Some(ms(CHOOSE i \in oks : \A j \in oks : ms(i) <= ms(j))),
         avg |-> IF oks = {} THEN None ELSE Some(SumMs(oks) \div Cardinality(oks)),
         max |-> IF oks = {} THEN None
                 ELSE Some(ms(CHOOSE i \in oks : \A j \in oks : ms(i) >= ms(j))),
         count |-> Cardinality(mem),
         errs |-> Cardinality({i \in mem : records[i].err # None})]

(* The binary collation of the names and kinds in use. *)
Collate(str) ==
    CASE str = "bar" -> 1 [] str = "foo" -> 2 [] str = "http" -> 3 [] str = "ping" -> 4
      [] OTHER -> 0

(* An order by the grouping columns: check id first. *)
RowBefore_ById(a, b) ==
    \/ a.id < b.id
    \/ a.id = b.id /\ a.bucket < b.bucket

(* An order with the latest bucket first. *)
RowBefore_Desc(a, b) ==
    \/ a.bucket > b.bucket
    \/ a.bucket = b.bucket /\ Collate(a.name) < Collate(b.name)
    \/ a.bucket = b.bucket /\ a.name = b.name /\ Collate(a.kind) < Collate(b.kind)

(* ORDER BY bucket, name, kind *)
RowBefore(a, b) ==
    \/ a.bucket < b.bucket
    \/ a.bucket = b.bucket /\ Collate(a.name) < Collate(b.name)
    \/ a.bucket = b.bucket /\ a.name = b.name /\ Collate(a.kind) < Collate(b.kind)

RECURSIVE OrderBy(_)
OrderBy(S) ==
    IF S = {} THEN <<>>
    ELSE LET first == CHOOSE x \in S : \A y \in S : ~RowBefore(y, x)
         IN  <<first>> \o OrderBy(S \ {first})

(* The rows of the rollup statement, in the order it returns them. *)
Rollup(s, e, rollup) ==
    OrderBy({Aggregate(key, s, e, rollup) : key \in GroupKeys(s, e, rollup)})

(* A find_pos that matches the name and forgets the kind. *)
FindPos_ByName(series, name, k) ==
    LET hits == {i \in DOMAIN series : series[i].name = name}
    IN  IF hits = {} THEN None ELSE Some(CHOOSE i \in hits : \A j \in hits : i <= j)

(* Metrics::find_pos *)
FindPos(series, name, k) ==
    LET hits == {i \in DOMAIN series : series[i].name = name /\ series[i].kind = k}
    IN  IF hits = {} THEN None ELSE Some(CHOOSE i \in hits : \A j \in hits : i <= j)

(* Metrics::get_mut: the series of (name, kind), appended when missing. *)
GetMut(series, name, k) ==
    LET pos == FindPos(series, name, k)
    IN  IF pos = None
        THEN [series |-> Append(series, [kind |-> k, name |-> name, values |-> <<>>]),
              idx |-> Len(series) + 1]
        ELSE [series |-> series, idx |-> UnwrapOr(pos, 0)]

(* A TimeValue that fills a missing min, avg or max with one. *)
TimeValue_DefaultOne(row) ==
    [ts |-> Secs(row.bucket),
     avg |-> UnwrapOr(row.avg, 1), min |-> UnwrapOr(row.min, 1),
     max |-> UnwrapOr(row.max, 1), count |-> row.count, errs |-> row.errs]

(* TimeValue: a missing min, avg or max becomes 0 (unwrap_or_default). *)
TimeValue(row) ==
    [ts |-> Secs(row.bucket),
     avg |-> UnwrapOr(row.avg, 0), min |-> UnwrapOr(row.min, 0),
     max |-> UnwrapOr(row.max, 0), count |-> row.count, errs |-> row.errs]

PushRow(series, row) ==
    LET g == GetMut(series, row.name, row.kind)
    IN  [g.series EXCEPT ![g.idx].values = Append(@, TimeValue(row))]

RECURSIVE BuildSeries(_, _)
BuildSeries(series, rows) ==
    IF rows = <<>> THEN series
    ELSE BuildSeries(PushRow(series, Head(rows)), Tail(rows))

(* A range check that lets an empty window through. *)
InvalidRange_Strict(w) == w.end < w.start

(* if end <= start { return Err(ServerError::InvalidEndDate) } *)
InvalidRange(w) == w.end <= w.start

(* handle_metrics: what is answered to query q when the datastore is or is *)
(* not available.                                                          *)
Answer(q, dbok) ==
    LET w == WindowOf(q) IN
    IF InvalidRange(w) THEN [NoResp EXCEPT !.status = "bad_request"]
    ELSE LET res == Resolution(w.end - w.start)
             s == EpochSecs(w.start)
             e == EpochSecs(w.end)
         IN  IF ~dbok \/ s = None \/ e = None THEN [NoResp EXCEPT !.status = "error"]
             ELSE LET rows == Rollup(UnwrapOr(s, 0), UnwrapOr(e, 0), res)
                  IN  [status |-> "ok", res |-> res, start |-> w.start, end |-> w.end,
                       rows |-> rows, series |-> BuildSeries(<<>>, rows)]

(* The queries a client sends at time t: start and end around the first    *)
(* records, windows of ShortWindowSecs, of a fraction of a second more and *)
(* of a second more; last, alone or together with a start and an end.      *)
QueryStarts ==
    {Secs(QueryFirstEpoch), Secs(QueryFirstEpoch + 1), Secs(QueryFirstEpoch + 1) + 1,
     Secs(QueryFirstEpoch + 2)}

QueryEnds ==
    {Secs(QueryFirstEpoch + 1), Secs(QueryFirstEpoch + 2), Secs(QueryFirstEpoch + 3),
     Secs(QueryFirstEpoch + 2 + ShortWindowSecs)}

QueryLasts == {0, Secs(2)}

Queries(t) ==
    LET nows == {Secs(t) + f : f \in 0..(Subsec - 1)} IN
    {[start |-> s, end |-> e, last |-> None, now |-> n] :
        s \in {None} \cup {Some(x) : x \in QueryStarts},
        e \in {None} \cup {Some(x) : x \in QueryEnds},
        n \in nows}
    \cup
    {[start |-> s, end |-> e, last |-> Some(l), now |-> n] :
        s \in {None, Some(Secs(QueryFirstEpoch + 1))},
        e \in {None, Some(Secs(QueryFirstEpoch + 2))},
        l \in QueryLasts,
        n \in nows}

QueryLatencies == {10, 30}

IdentityIds == {checksTbl[j].id : j \in DOMAIN checksTbl}

(* A recorder that keeps one row per check: it replaces the row of the     *)
(* check when there is one.                                                *)
RecordOk_Upsert(c, ms) ==
    /\ resp.status = "none"
    /\ Len(records) < MaxRows
    /\ LET old == {i \in DOMAIN records : records[i].check_id = c} IN
          records' = IF old = {} THEN Append(records, MarkOk(c, ms, clock))
                     ELSE [records EXCEPT ![CHOOSE i \in old : TRUE] = MarkOk(c, ms, clock)]
    /\ UNCHANGED <<cfgVars, app, setupVars, conns, schedVars, matVars, qryVars, clock, task>>

(* The recorder writes the outcome of an attempt of check c. *)
RecordOk(c, ms) ==
    /\ resp.status = "none"
    /\ Len(records) < MaxRows
    /\ records' = Append(records, MarkOk(c, ms, clock))
    /\ UNCHANGED <<cfgVars, app, setupVars, conns, schedVars, matVars, qryVars, clock, task>>

RecordErr(c, msg) ==
    /\ resp.status = "none"
    /\ Len(records) < MaxRows
    /\ records' = Append(records, MarkErr(c, msg, clock))
    /\ UNCHANGED <<cfgVars, app, setupVars, conns, schedVars, matVars, qryVars, clock, task>>

HandleMetrics(q) ==
    /\ resp.status = "none"
    /\ req' = q
    /\ \E dbok \in BOOLEAN : resp' = Answer(q, dbok)
    /\ UNCHANGED <<cfgVars, app, setupVars, conns, schedVars, matVars, clock, task, records>>

(* The answer is sent and the handler's state is dropped. *)
SendResponse ==
    /\ resp.status # "none"
    /\ req' = NoReq
    /\ resp' = NoResp
    /\ UNCHANGED <<cfgVars, app, setupVars, conns, schedVars, matVars, clock, task, records>>

QueryTick ==
    /\ resp.status = "none"
    /\ clock < QueryFirstEpoch + QuerySpan
    /\ clock' = clock + 1
    /\ UNCHANGED <<cfgVars, app, setupVars, conns, schedVars, matVars, qryVars, task, records>>

QryIdle == req = NoReq /\ resp = NoResp

(* The store after setup: the identities of the configured checks, no      *)
(* records yet; the scheduler is not modelled while queries are.  The      *)
(* clock starts just before the first records, or more than the default    *)
(* window after them.                                                      *)
QryInit ==
    /\ kind = [c \in Checks |-> "http"]
    /\ nworkers = 1
    /\ interval = 1
    /\ horizon = [ticks |-> 0, time |-> 0]
    /\ clock \in {QueryFirstEpoch, QueryFirstEpoch + QuerySpan + DefaultWindowSecs}
    /\ spc = "idle"
    /\ tick = 0
    /\ now = 0
    /\ wake = 0
    /\ elapsed = 0
    /\ sleepDur = 0
    /\ logged = {}
    /\ task = [n \in Ticks |-> [c \in Checks |-> Blank]]
    /\ records = <<>>
    /\ checksTbl = <<[id |-> 1, name |-> "foo", kind |-> "http"],
                     [id |-> 2, name |-> "bar", kind |-> "ping"],
                     [id |-> 3, name |-> "foo", kind |-> "ping"]>>
    /\ nextId = 4
    /\ call = [p \in Callers |-> IdleCall]
    /\ rets = <<>>
    /\ ncalls = 0
    /\ conns = {}
    /\ SetupIdle
    /\ app = NoApp
    /\ QryIdle

QryNext ==
    \/ \E c \in IdentityIds, ms \in QueryLatencies : RecordOk(c, ms)
    \/ \E c \in IdentityIds : RecordErr(c, "timeout")
    \/ \E q \in Queries(clock) : HandleMetrics(q)
    \/ SendResponse
    \/ QueryTick

SpecQuery == QryInit /\ [][QryNext]_vars

----------------------------------------------------------------------------
(* Setup: Checker::new materializes and builds one check per configured    *)
(* entry, the http entries first and then the ping entries, and returns    *)
(* at the first error; App::new passes that error on, so that the loop     *)
(* runs only on a Checker that new returned.  A tick of the loop is one    *)
(* step here: every check of Checker.checks is attempted once.             *)

Entry(k, name) == [kind |-> k, name |-> name]

(* Entries keyed by name alone: a name configured under both kinds gives   *)
(* one entry.                                                              *)
Entries_ByName ==
    {Entry("http", x) : x \in config.http}
        \cup {Entry("ping", x) : x \in config.ping \ config.http}

(* The entries of config.http and config.ping: maps keyed by name. *)
Entries ==
    {Entry("http", x) : x \in config.http} \cup {Entry("ping", x) : x \in config.ping}

(* The entries the two for loops may take next: a HashMap iterates in an   *)
(* arbitrary order, and the http map is gone through before the ping map.  *)
NextEntries ==
    LET http == {e \in Entries \ done : e.kind = "http"}
    IN  IF http # {} THEN http ELSE Entries \ done

(* materialize of a single caller: the select, and the insert when the     *)
(* select finds no row.                                                    *)
Materialize(tbl, nid, name, k) ==
    LET id == Lookup(tbl, name, k)
    IN  IF id # None
        THEN [id |-> CHOOSE i \in id : TRUE, tbl |-> tbl, nextId |-> nid]
        ELSE [id |-> nid,
              tbl |-> Append(tbl, [id |-> nid, name |-> name, kind |-> k]),
              nextId |-> nid + 1]

(* A build that forgets the id it was given. *)
Build_DefaultId(e, id) == [kind |-> e.kind, name |-> e.name, id |-> 0]

(* Http::build and Ping::build: the check keeps the id it was given. *)
Build(e, id) == [kind |-> e.kind, name |-> e.name, id |-> id]

(* A loop that goes on to the next entry when one fails. *)
EntryFailed_Skip(p) == p

(* The ? operator on materialize and on build: new returns the error. *)
EntryFailed(p) == "failed"

(* One iteration of a for loop of Checker::new.  dbok: the storage         *)
(* operation of materialize succeeded; urlok: the url of an http entry     *)
(* parses.                                                                 *)
NewEntry(e, dbok, urlok) ==
    /\ phase = "new"
    /\ e \in NextEntries
    /\ ncalls' = ncalls + 1
    /\ done' = done \cup {e}
    /\ LET m == Materialize(checksTbl, nextId, e.name, e.kind) IN
          IF ~dbok
          THEN /\ rets' = Append(rets, Returned(1, e, None, FALSE))
               /\ phase' = EntryFailed(phase)
               /\ UNCHANGED <<checksTbl, nextId, checks>>
          ELSE /\ rets' = Append(rets, Returned(1, e, Some(m.id), FALSE))
               /\ checksTbl' = m.tbl
               /\ nextId' = m.nextId
               /\ IF e.kind = "http" /\ ~urlok
                  THEN phase' = EntryFailed(phase) /\ checks' = checks
                  ELSE phase' = phase /\ checks' = Append(checks, Build(e, m.id))
    /\ UNCHANGED <<cfgVars, app, schedVars, qryVars, conns, clock, task, records, call,
                   config>>

(* Both for loops are through: new returns Ok(checker). *)
NewReturn ==
    /\ phase = "new"
    /\ NextEntries = {}
    /\ phase' = "ready"
    /\ UNCHANGED <<cfgVars, app, schedVars, matVars, qryVars, conns, clock, task, records,
                   config, done, checks>>

(* What the task of a check does in a tick: it writes a success row, an    *)
(* error row, or its write fails.                                          *)
TickOutcomes == {"ok", "err", "lost"}

TickRow(chk, o, t) ==
    IF o = "ok" THEN MarkOk(chk.id, 1, t) ELSE MarkErr(chk.id, "timeout", t)

TickRows(f, t) ==
    LET all == [i \in DOMAIN checks |-> [o |-> f[i], row |-> TickRow(checks[i], f[i], t)]]
        kept == SelectSeq(all, LAMBDA x : x.o # "lost")
    IN  [i \in DOMAIN kept |-> kept[i].row]

(* A tick of check_loop: check_all spawns one task per check of            *)
(* Checker.checks and joins them all.                                      *)
RunTick ==
    /\ phase = "ready"
    /\ tick < MaxTicks
    /\ tick' = tick + 1
    /\ \E f \in [DOMAIN checks -> TickOutcomes] :
          records' = records \o TickRows(f, clock)
    /\ UNCHANGED <<cfgVars, app, setupVars, matVars, qryVars, conns, clock, task,
                   spc, now, wake, elapsed, sleepDur, logged>>

(* The checks table the program starts on: empty, or the rows an earlier   *)
(* run of the program left.                                                *)
SetupStores ==
    {<<>>, <<[id |-> 1, name |-> "foo", kind |-> "ping"]>>}

SetupInit ==
    /\ SchedIdle
    /\ QryIdle
    /\ checksTbl \in SetupStores
    /\ nextId = Len(checksTbl) + 1
    /\ call = [p \in Callers |-> IdleCall]
    /\ rets = <<>>
    /\ ncalls = 0
    /\ config \in [http : SUBSET Names, ping : SUBSET Names]
    /\ done = {}
    /\ checks = <<>>
    /\ phase = "new"
    /\ app = NoApp

SetupNext ==
    \/ \E e \in Entries, dbok \in BOOLEAN, urlok \in BOOLEAN : NewEntry(e, dbok, urlok)
    \/ NewReturn
    \/ RunTick

----------------------------------------------------------------------------
(* The scheduler of main.rs: Checker::run, Checker::check_all,             *)
(* Checker::check and Db::record.  The kinds are "http" and "ping"; the    *)
(* rows are those of the http_resp table.                                  *)

mainFrozen == <<cfgVars, app, setupVars, conns, matVars, qryVars>>

MainKinds == {"http", "ping"}

(* Db::record of an HttpResult::Response and of an HttpResult::Error. *)
HttpRespRow(c, out, ms) ==
    IF out = "response"
    THEN [check_name |-> c, latency_ms |-> Some(ms), code |-> Some(200), error |-> None]
    ELSE [check_name |-> c, latency_ms |-> None, code |-> None, error |-> Some(out)]

(* Db::record: what it inserts for a result, and how it ends.  A ping      *)
(* result is not recorded; the Timeout arm is todo!(), which panics.       *)
DbRecord(c, out, ms, dbok) ==
    IF out = "timeout" THEN [rows |-> <<>>, res |-> "panic"]
    ELSE IF out = "ping" THEN [rows |-> <<>>, res |-> "ok"]
    ELSE IF dbok THEN [rows |-> <<HttpRespRow(c, out, ms)>>, res |-> "ok"]
    ELSE [rows |-> <<>>, res |-> "err"]

MainDone(res) == [Blank EXCEPT !.pc = "finished", !.res = res]

MainRunnable ==
    \/ spc = "idle" /\ tick < horizon.ticks
    \/ spc = "sleep" /\ clock >= wake
    \/ spc = "await" /\ \E c \in Checks : T(tick, c).pc = "finished"
    \/ spc = "await" /\ \A c \in Checks : T(tick, c).pc = "joined"
    \/ \E n \in Ticks, c \in Checks :
          \/ T(n, c).pc \in {"spawned", "ready"}
          \/ T(n, c).pc = "probing" /\ clock >= T(n, c).deadline

(* check_all: one task is spawned per check. *)
MainTickStart ==
    /\ spc = "idle"
    /\ tick < horizon.ticks
    /\ tick' = tick + 1
    /\ now' = clock
    /\ task' = [task EXCEPT ![tick + 1] = [c \in Checks |-> [Blank EXCEPT !.pc = "spawned"]]]
    /\ spc' = "await"
    /\ UNCHANGED <<mainFrozen, clock, records, wake, elapsed, sleepDur, logged>>

(* The first poll of a task.  A ping returns Ok(PingResult {}) at once and *)
(* is handed to Db::record; an http check builds its client and request    *)
(* (an error there is returned by the ? of check) and sends the request.   *)
MainCheckStart(n, c) ==
    /\ T(n, c).pc = "spawned"
    /\ \E how \in {"build_err", "send"}, dbok \in BOOLEAN :
          IF kind[c] = "ping"
          THEN /\ task' = SetTask(n, c, MainDone(DbRecord(c, "ping", 0, dbok).res))
               /\ records' = records \o DbRecord(c, "ping", 0, dbok).rows
          ELSE IF how = "build_err"
          THEN /\ task' = SetTask(n, c, MainDone("err"))
               /\ records' = records
          ELSE /\ task' = SetTask(n, c, [Blank EXCEPT !.pc = "probing",
                                                      !.deadline = clock + interval,
                                                      !.start = clock])
               /\ records' = records
    /\ UNCHANGED <<mainFrozen, schedVars, clock>>

(* client.execute(req) completes with a response or with an error. *)
MainIoComplete(n, c) ==
    /\ T(n, c).pc = "probing"
    /\ ~MainRunnable
    /\ \E r \in {"response", "error"} :
          task' = SetTask(n, c, [T(n, c) EXCEPT !.pc = "ready", !.out = r,
                                                !.ms = clock - T(n, c).start])
    /\ UNCHANGED <<mainFrozen, schedVars, clock, records>>

(* The task is polled with its result ready: check hands it to Db::record, *)
(* which runs on the task.                                                 *)
MainPollReady(n, c) ==
    /\ T(n, c).pc = "ready"
    /\ \E dbok \in BOOLEAN :
          LET r == DbRecord(c, T(n, c).out, T(n, c).ms, dbok)
          IN  /\ task' = SetTask(n, c, MainDone(r.res))
              /\ records' = records \o r.rows
    /\ UNCHANGED <<mainFrozen, schedVars, clock>>

(* The timeout elapses first: check makes a CheckResult::Timeout of it and *)
(* hands it to Db::record.                                                 *)
MainTimeoutFires(n, c) ==
    /\ T(n, c).pc = "probing"
    /\ clock >= T(n, c).deadline
    /\ LET r == DbRecord(c, "timeout", 0, TRUE)
       IN  /\ task' = SetTask(n, c, MainDone(r.res))
           /\ records' = records \o r.rows
    /\ UNCHANGED <<mainFrozen, schedVars, clock>>

(* join_next yields a finished task: res.wrap_err(..)?.wrap_err(..)?       *)
(* returns its panic or its error from check_all, and run returns it with  *)
(* its own ?; the JoinSet is dropped, which aborts the tasks still in it.  *)
MainJoinNext(c) ==
    /\ spc = "await"
    /\ T(tick, c).pc = "finished"
    /\ IF T(tick, c).res = "ok"
       THEN /\ task' = SetTask(tick, c, [T(tick, c) EXCEPT !.pc = "joined"])
            /\ spc' = spc
       ELSE /\ task' = [task EXCEPT ![tick] =
                          [d \in Checks |->
                             IF d = c THEN [T(tick, c) EXCEPT !.pc = "joined"]
                             ELSE IF T(tick, d).pc = "joined" THEN T(tick, d)
                             ELSE [Blank EXCEPT !.pc = "aborted"]]]
            /\ spc' = "returned"
    /\ UNCHANGED <<mainFrozen, clock, records, tick, now, wake, elapsed, sleepDur, logged>>

(* check_all returns Ok(()): run sleeps for the interval. *)
MainCheckAllReturn ==
    /\ spc = "await"
    /\ \A c \in Checks : T(tick, c).pc = "joined"
    /\ elapsed' = clock - now
    /\ sleepDur' = interval
    /\ wake' = clock + interval
    /\ spc' = "sleep"
    /\ UNCHANGED <<mainFrozen, clock, records, tick, now, logged, task>>

MainWake ==
    /\ spc = "sleep"
    /\ clock >= wake
    /\ spc' = "idle"
    /\ UNCHANGED <<mainFrozen, clock, records, tick, now, wake, elapsed, sleepDur, logged, task>>

MainAdvanceClock ==
    /\ clock < horizon.time
    /\ ~MainRunnable
    /\ spc # "returned"
    /\ clock' = clock + 1
    /\ UNCHANGED <<mainFrozen, schedVars, task, records>>

MainInit ==
    /\ kind \in [Checks -> MainKinds]
    /\ nworkers = 1
    /\ interval \in 0..MaxInterval
    /\ horizon = [ticks |-> MaxTicks, time |-> MaxTime]
    /\ clock = 0
    /\ spc = "idle"
    /\ tick = 0
    /\ now = 0
    /\ wake = 0
    /\ elapsed = 0
    /\ sleepDur = 0
    /\ logged = {}
    /\ task = [n \in Ticks |-> [c \in Checks |-> Blank]]
    /\ records = <<>>
    /\ conns = {}
    /\ SetupIdle
    /\ app = NoApp
    /\ MatIdle
    /\ QryIdle

MainNext ==
    \/ MainTickStart
    \/ \E n \in Ticks, c \in Checks : MainCheckStart(n, c)
    \/ \E n \in Ticks, c \in Checks : MainIoComplete(n, c)
    \/ \E n \in Ticks, c \in Checks : MainPollReady(n, c)
    \/ \E n \in Ticks, c \in Checks : MainTimeoutFires(n, c)
    \/ \E c \in Checks : MainJoinNext(c)
    \/ MainCheckAllReturn
    \/ MainWake
    \/ MainAdvanceClock

----------------------------------------------------------------------------
(* The recorder of db.rs: Db::record_http and Db::record_ping.  A          *)
(* statement is its table, its column list and the number of values of     *)
(* its VALUES clause (None when it has no such clause); records holds the  *)
(* rows of http_resp and ping_resp, rets what the calls returned.          *)

MaxRecordCalls == 2

HttpErrorKinds == {"build_client", "build_request", "task_timeout", "call"}

PingErrorKinds == {"resolve_host", "no_ip_for_host", "ping", "task_timeout"}

(* insert into http_resp (check_name, latency_ms, code) values (?1, ?2, ?3) *)
HttpOkStmt ==
    [table |-> "http_resp", cols |-> <<"check_name", "latency_ms", "code">>,
     values |-> Some(3)]

(* insert into http_resp (check_name, error, error_kind) values (?1, ?2, ?3) *)
HttpErrStmt ==
    [table |-> "http_resp", cols |-> <<"check_name", "error", "error_kind">>,
     values |-> Some(3)]

(* insert into ping_resp (check_name, latency_ms) values (?1, ?2) *)
PingOkStmt ==
    [table |-> "ping_resp", cols |-> <<"check_name", "latency_ms">>, values |-> Some(2)]

(* insert into ping_resp (check_name, error, error_kind): the statement    *)
(* ends after the column list.                                             *)
PingErrStmt ==
    [table |-> "ping_resp", cols |-> <<"check_name", "error", "error_kind">>,
     values |-> None]

(* conn.execute(sql, params): the insert fails when the storage does, when *)
(* the statement does not parse (an INSERT needs its VALUES), and when the *)
(* parameters are not as many as the statement's placeholders; otherwise   *)
(* it adds one row holding the parameters under the columns.               *)
Execute(stmt, params, dbok) ==
    IF ~dbok \/ stmt.values = None \/ stmt.values # Some(Len(params))
          \/ Len(stmt.cols) # Len(params)
    THEN [rows |-> <<>>, ret |-> "err"]
    ELSE [rows |-> <<[table |-> stmt.table,
                      cols |-> [i \in DOMAIN params |-> <<stmt.cols[i], params[i]>>]]>>,
          ret |-> "ok"]

(* Db::record_http *)
RecordHttp(name, res, dbok) ==
    IF res = "ok"
    THEN Execute(HttpOkStmt, <<name, "latency", "code">>, dbok)
    ELSE Execute(HttpErrStmt, <<name, "error", res>>, dbok)

(* Db::record_ping *)
RecordPing(name, res, dbok) ==
    IF res = "ok"
    THEN Execute(PingOkStmt, <<name, "latency">>, dbok)
    ELSE Execute(PingErrStmt, <<name, "error", res>>, dbok)

(* A call is remembered in rets by its arguments, whether the storage was  *)
(* available, what it returned and how many rows it added.                 *)
RecordHttpCall(name, res, dbok) ==
    /\ Len(rets) < MaxRecordCalls
    /\ records' = records \o RecordHttp(name, res, dbok).rows
    /\ rets' = Append(rets, [fn |-> "record_http", name |-> name, res |-> res, dbok |-> dbok,
                             ret |-> RecordHttp(name, res, dbok).ret,
                             added |-> Len(RecordHttp(name, res, dbok).rows)])
    /\ UNCHANGED <<cfgVars, app, setupVars, conns, schedVars, qryVars, clock, task,
                   checksTbl, nextId, call, ncalls>>

RecordPingCall(name, res, dbok) ==
    /\ Len(rets) < MaxRecordCalls
    /\ records' = records \o RecordPing(name, res, dbok).rows
    /\ rets' = Append(rets, [fn |-> "record_ping", name |-> name, res |-> res, dbok |-> dbok,
                             ret |-> RecordPing(name, res, dbok).ret,
                             added |-> Len(RecordPing(name, res, dbok).rows)])
    /\ UNCHANGED <<cfgVars, app, setupVars, conns, schedVars, qryVars, clock, task,
                   checksTbl, nextId, call, ncalls>>

RecordNext ==
    \/ \E name \in Names, res \in {"ok"} \cup HttpErrorKinds, dbok \in BOOLEAN :
          RecordHttpCall(name, res, dbok)
    \/ \E name \in Names, res \in {"ok"} \cup PingErrorKinds, dbok \in BOOLEAN :
          RecordPingCall(name, res, dbok)

----------------------------------------------------------------------------
(* The application of app.rs: App::run spawns run_checker and run_api into *)
(* a JoinSet and returns what its first join_next gives.  Tasks run from   *)
(* the moment they are spawned, concurrently with App::run; app.order is   *)
(* the tasks that ended, in the order they ended.  An error is the         *)
(* sequence of its contexts, outermost first.                              *)

appFrozen == <<cfgVars, setupVars, conns, schedVars, matVars, qryVars, clock, task, records>>

AppTasks == {"checker", "api"}

Ok == [ok |-> TRUE, err |-> <<>>]

Err(e) == [ok |-> FALSE, err |-> e]

Live(t) == t.pc \notin {"unspawned", "finished", "panicked", "aborted"}

(* Checker::run, from the first of its tasks to end (None when join_next   *)
(* finds the set empty).                                                   *)
CheckerRun(first, how) ==
    IF first = None THEN Ok
    ELSE IF how = "panic" THEN Err(<<"background task panicked", "join error">>)
    ELSE IF how = "ok" THEN Err(<<"unexpected quit">>)
    ELSE IF first = Some("listen") THEN Err(<<"listener failed", "io">>)
    ELSE Err(<<"checker failed", "io">>)

(* Api::run, by how it ends: the listener does not bind ("bind"),         *)
(* axum::serve fails ("serve"), or axum::serve returns ("quit").           *)
ApiRun(how) ==
    IF how = "bind" THEN Err(<<"could not bind http listener", "io">>)
    ELSE IF how = "serve" THEN Err(<<"axum failed", "io">>)
    ELSE Err(<<"axum quit unexpectedly">>)

(* App::run_checker: the error the task returns. *)
RunChecker(r) ==
    IF r.ok THEN <<"checker quit unexpectedly">> ELSE <<"checker failed">> \o r.err

(* App::run_api: the error the task returns. *)
RunApi(r) ==
    IF r.ok THEN <<"api quit unexpectedly">> ELSE <<"api failed">> \o r.err

(* A join_next that is ready only when every task of the set has ended. *)
JoinReady_All(order) == Len(order) = Cardinality(AppTasks)

(* join_next of a JoinSet is ready as soon as one of its tasks has ended. *)
JoinReady(order) == order # <<>>

(* What join_next gives for a task that ended: Some(Ok(err)) with the      *)
(* error the task returned, or Some(Err(je)) when the task panicked.       *)
JoinedTask(t) ==
    IF t.pc = "panicked" THEN [join |-> "panic", val |-> <<>>]
    ELSE [join |-> "ok", val |-> CHOOSE e \in t.val : TRUE]

(* App::run's match on what join_next gave: the error a task returned, a   *)
(* panic of the task, or nothing (join "none") when the set is empty.      *)
AppRunReturn(joined) ==
    IF joined.join = "none" THEN Ok
    ELSE IF joined.join = "panic" THEN Err(<<"panic!", "join error">>)
    ELSE Err(joined.val)

(* Dropping a JoinSet aborts the tasks that are still in it. *)
AbortSub(st) == IF st = "running" THEN "aborted" ELSE st

AbortTask(t) == IF Live(t) THEN [t EXCEPT !.pc = "aborted"] ELSE t

(* js.spawn(self.clone().run_checker()) *)
AppSpawnChecker ==
    /\ app.pc = "new"
    /\ app' = [app EXCEPT !.pc = "spawned_checker", !.checker.pc = "start"]
    /\ UNCHANGED appFrozen

(* js.spawn(self.clone().run_api()) *)
AppSpawnApi ==
    /\ app.pc = "spawned_checker"
    /\ app' = [app EXCEPT !.pc = "joining", !.api.pc = "binding"]
    /\ UNCHANGED appFrozen

(* Checker::run spawns its listener. *)
CheckerSpawnListen ==
    /\ app.checker.pc = "start"
    /\ app' = [app EXCEPT !.checker.pc = "spawned_listen", !.listen = "running"]
    /\ UNCHANGED appFrozen

(* Checker::run spawns its check loop. *)
CheckerSpawnLoop ==
    /\ app.checker.pc = "spawned_listen"
    /\ app' = [app EXCEPT !.checker.pc = "joining", !.loop = "running"]
    /\ UNCHANGED appFrozen

(* One of the checker's tasks returns Ok, returns an error, or panics. *)
CheckerSubEnds(sub, how) ==
    /\ app[sub] = "running"
    /\ app' = [app EXCEPT ![sub] = how,
                          !.first = IF app.first = None THEN Some(sub) ELSE app.first]
    /\ UNCHANGED appFrozen

(* Checker::run's join_next gives the first task that ended; run returns,  *)
(* its JoinSet is dropped, and run_checker returns the error.              *)
CheckerJoinNext ==
    /\ app.checker.pc = "joining"
    /\ app.first # None
    /\ LET sub == CHOOSE x \in {"listen", "loop"} : app.first = Some(x)
       IN  app' = [app EXCEPT !.checker = [pc |-> "finished",
                                           val |-> Some(RunChecker(CheckerRun(app.first, app[sub])))],
                              !.listen = AbortSub(app.listen),
                              !.loop = AbortSub(app.loop),
                              !.order = Append(app.order, "checker")]
    /\ UNCHANGED appFrozen

(* Api::run binds its listener, or fails to. *)
ApiBind(ok) ==
    /\ app.api.pc = "binding"
    /\ app' = IF ok
              THEN [app EXCEPT !.api.pc = "serving"]
              ELSE [app EXCEPT !.api = [pc |-> "finished",
                                        val |-> Some(RunApi(ApiRun("bind")))],
                               !.order = Append(app.order, "api")]
    /\ UNCHANGED appFrozen

(* axum::serve fails or returns; Api::run bails either way. *)
ApiServeEnds(how) ==
    /\ app.api.pc = "serving"
    /\ app' = [app EXCEPT !.api = [pc |-> "finished", val |-> Some(RunApi(ApiRun(how)))],
                          !.order = Append(app.order, "api")]
    /\ UNCHANGED appFrozen

(* A background task panics; the unwinding drops what the task holds. *)
AppTaskPanics(t) ==
    /\ Live(app[t])
    /\ app' = [app EXCEPT ![t] = [pc |-> "panicked", val |-> None],
                          !.listen = IF t = "checker" THEN AbortSub(app.listen) ELSE app.listen,
                          !.loop = IF t = "checker" THEN AbortSub(app.loop) ELSE app.loop,
                          !.order = Append(app.order, t)]
    /\ UNCHANGED appFrozen

(* js.join_next().await is ready: App::run returns through its match, and  *)
(* the JoinSet is dropped with the other task in it.                       *)
AppJoinNext ==
    /\ app.pc = "joining"
    /\ JoinReady(app.order)
    /\ LET checkerAborted == Live(app.checker)
       IN  app' = [app EXCEPT !.pc = "returned",
                              !.ret = Some(AppRunReturn(JoinedTask(app[app.order[1]]))),
                              !.checker = AbortTask(app.checker),
                              !.api = AbortTask(app.api),
                              !.listen = IF checkerAborted THEN AbortSub(app.listen)
                                         ELSE app.listen,
                              !.loop = IF checkerAborted THEN AbortSub(app.loop)
                                       ELSE app.loop]
    /\ UNCHANGED appFrozen

AppNext ==
    \/ AppSpawnChecker
    \/ AppSpawnApi
    \/ CheckerSpawnListen
    \/ CheckerSpawnLoop
    \/ \E sub \in {"listen", "loop"}, how \in {"ok", "err", "panic"} : CheckerSubEnds(sub, how)
    \/ CheckerJoinNext
    \/ \E ok \in BOOLEAN : ApiBind(ok)
    \/ \E how \in {"serve", "quit"} : ApiServeEnds(how)
    \/ \E t \in AppTasks : AppTaskPanics(t)
    \/ AppJoinNext

----------------------------------------------------------------------------
(* The specifications. *)

MatInit == SchedIdle /\ SetupIdle /\ app = NoApp /\ MatIdle /\ QryIdle

SpecSetup == SetupInit /\ [][SetupNext]_vars

SpecMain == MainInit /\ [][MainNext]_vars

SpecRecord == MatInit /\ [][RecordNext]_vars

SpecApp == MatInit /\ [][AppNext]_vars

SpecMat == MatInit /\ [][MatNext]_vars

SpecMatSeq == MatInit /\ [][MatNextSeq]_vars

Init ==
    /\ SchedStart
    /\ SetupIdle
    /\ app = NoApp
    /\ MatIdle
    /\ QryIdle
    /\ interval \in 1..LoopInterval
    /\ horizon = [ticks |-> MaxTicks, time |-> LoopTime]

InitTick ==
    /\ SchedStart
    /\ SetupIdle
    /\ app = NoApp
    /\ MatIdle
    /\ QryIdle
    /\ interval \in 0..MaxInterval
    /\ horizon = [ticks |-> 1, time |-> MaxTime]

Next ==
    \/ TickStart
    \/ \E c \in Checks : JoinNext(c)
    \/ CheckAllReturn
    \/ Wake
    \/ \E n \in Ticks, c \in Checks : TaskStart(n, c)
    \/ \E n \in Ticks, c \in Checks : LookupReturn(n, c)
    \/ \E n \in Ticks, c \in Checks : IoComplete(n, c)
    \/ \E n \in Ticks, c \in Checks : PollReady(n, c)
    \/ \E n \in Ticks, c \in Checks : TimeoutFires(n, c)
    \/ \E n \in Ticks, c \in Checks : DbDone(n, c)
    \/ AdvanceClock

Spec == Init /\ [][Next]_vars

SpecTick == InitTick /\ [][Next]_vars

(* Time goes on to the deadline of a probe in flight, also after the       *)
(* horizon of the run.                                                     *)
AdvanceToDeadline ==
    /\ clock >= horizon.time
    /\ Quiescent
    /\ \E n \in Ticks, c \in Checks : T(n, c).pc = "probing" /\ clock < T(n, c).deadline
    /\ clock' = clock + 1
    /\ UNCHANGED <<cfgVars, app, setupVars, conns, schedVars, matVars, qryVars, task, records>>

NextLive == Next \/ AdvanceToDeadline

(* The runtime polls every task and timer that is ready as long as a       *)
(* worker is free, time passes, and the storage operations terminate.      *)
(* Nothing makes a probe or a lookup return.                               *)
Fairness ==
    /\ WF_vars(TickStart)
    /\ WF_vars(CheckAllReturn)
    /\ WF_vars(Wake)
    /\ WF_vars(AdvanceClock)
    /\ WF_vars(AdvanceToDeadline)
    /\ \A c \in Checks : WF_vars(JoinNext(c))
    /\ \A n \in Ticks, c \in Checks :
          /\ WF_vars(TaskStart(n, c))
          /\ WF_vars(PollReady(n, c))
          /\ WF_vars(TimeoutFires(n, c))
          /\ WF_vars(DbDone(n, c))

SpecLive == InitTick /\ [][NextLive]_vars /\ Fairness

----------------------------------------------------------------------------
(* Properties. *)

Max(a, b) == IF a >= b THEN a ELSE b

Attempts == Ticks \X Checks

RowsOf(c) == {i \in DOMAIN records : records[i].check_id = c}

Returned_ok(a) == T(a[1], a[2]).pc \in {"finished", "joined"} /\ T(a[1], a[2]).res = "ok"

(* C1: isolation within a tick.  While at most one check's probe is stuck  *)
(* (here: in its host name lookup), no other task of the tick is still     *)
(* waiting to start or waiting for its probe's outcome once the interval   *)
(* has elapsed since the tick started: its outcome is decided, and only    *)
(* the write of its record may remain.                                     *)
C1_Isolation ==
    \A n \in Ticks, c \in Checks :
        (/\ Cardinality({d \in Checks : T(n, d).pc = "resolving"}) <= 1
         /\ T(n, c).pc \in {"spawned", "probing", "ready"})
        => clock <= now + interval

(* C2: when the probe of an attempt had not completed by the time the      *)
(* interval elapsed, the record the attempt writes is the timeout error    *)
(* record, with no latency.                                                *)
C2_LateIsTimeout ==
    \A n \in Ticks, c \in Checks :
        (T(n, c).pc = "writing" /\ T(n, c).late)
        => OutcomeRows(c, T(n, c), clock) = <<MarkErr(c, "timeout", clock)>>

(* C3: whenever check_all ends, every task of the tick has been joined     *)
(* (none was aborted), each failed or panicked task was logged, and the    *)
(* loop goes on to its sleep: it does not return.                          *)
C3_FailuresOnlyLogged ==
    [][(spc = "await" /\ spc' # "await")
       => /\ spc' = "sleep"
          /\ \A c \in Checks :
                /\ T(tick, c).pc = "joined"
                /\ T(tick, c).res # "ok" => <<tick, c>> \in logged]_vars

C3_Witness ==
    /\ tick = 2
    /\ \E c, d \in Checks :
          /\ T(1, c).res = "panic"
          /\ T(1, d).res = "ok"
          /\ T(2, c).pc # "none"

(* C4: every tick spawns one task per check, and the number of rows of a   *)
(* check is the number of its attempts whose write succeeded: one row per  *)
(* such attempt whatever the branch, none for a failed write, and never a  *)
(* second row.                                                             *)
C4_OneRecordPerAttempt ==
    \A c \in Checks :
        /\ \A n \in 1..tick : T(n, c).pc # "none"
        /\ \A n \in Ticks : n > tick => T(n, c).pc = "none"
        /\ Cardinality(RowsOf(c)) = Cardinality({n \in Ticks : Returned_ok(<<n, c>>)})

C4_Witness ==
    /\ \A a \in Attempts : Returned_ok(a)
    /\ \E i, j, k \in DOMAIN records :
          /\ records[i].ms # None
          /\ records[j].err = Some(DebugFmt("timeout"))
          /\ records[k].err = Some(DebugFmt("lookup host"))

(* C5: a failed record write stays with its attempt.  check_loop never     *)
(* returns, no task is aborted, the failure is logged at the join, and a   *)
(* sibling whose own write succeeded has its row.                          *)
C5_WriteFailureConfined ==
    /\ spc # "returned"
    /\ \A a \in Attempts :
          /\ T(a[1], a[2]).pc # "aborted"
          /\ (T(a[1], a[2]).pc = "joined" /\ T(a[1], a[2]).res = "err") => a \in logged
    /\ \A c \in Checks :
          Cardinality(RowsOf(c)) >= Cardinality({n \in Ticks : Returned_ok(<<n, c>>)})

C5_Witness ==
    \E c, d \in Checks :
        /\ c # d
        /\ T(1, c).pc = "joined" /\ T(1, c).res = "err"
        /\ T(1, d).pc = "joined" /\ T(1, d).res = "ok"
        /\ T(2, c).pc = "joined" /\ T(2, c).res = "ok"
        /\ Cardinality(RowsOf(c)) = 1 /\ Cardinality(RowsOf(d)) >= 1

(* C9: a task of a later tick exists only when every task of the earlier   *)
(* ticks of that check has been joined, and the rows of a check are in     *)
(* non-decreasing epoch order.                                             *)
C9_TicksDoNotOverlap ==
    /\ \A c \in Checks, n, m \in Ticks :
          (n < m /\ T(m, c).pc # "none") => T(n, c).pc = "joined"
    /\ \A i, j \in DOMAIN records :
          (i < j /\ records[i].check_id = records[j].check_id)
          => records[i].epoch <= records[j].epoch

C9_Witness ==
    \E c \in Checks, i, j \in DOMAIN records :
        /\ T(2, c).pc = "joined"
        /\ i < j
        /\ records[i].check_id = c /\ records[j].check_id = c
        /\ records[i].epoch < records[j].epoch

(* C10: the sleep after a tick is max(0, interval - elapsed), never        *)
(* negative and zero when the tick took the interval or longer, and the    *)
(* next tick starts max(interval, elapsed) after the previous one.         *)
C10_SleepIsRemainder ==
    /\ [](spc = "sleep" =>
            /\ sleepDur = Max(0, interval - elapsed)
            /\ sleepDur >= 0
            /\ (elapsed >= interval => sleepDur = 0)
            /\ elapsed = wake - sleepDur - now)
    /\ [][(tick >= 1 /\ tick' = tick + 1) => now' = now + Max(interval, elapsed)]_vars

C10_Witness ==
    /\ tick = 2
    /\ elapsed > interval
    /\ now = 2

(* C6: sequential calls for a pair all return the id the first of them     *)
(* returned, and the checks table holds exactly one row for the pair.      *)
C6_SequentialIdempotent ==
    \A i \in DOMAIN rets :
        /\ rets[i].res # None
        /\ \A j \in DOMAIN rets :
              (i < j /\ rets[j].name = rets[i].name /\ rets[j].kind = rets[i].kind)
              => rets[j].res = rets[i].res
        /\ Cardinality({r \in DOMAIN checksTbl :
                            /\ checksTbl[r].name = rets[i].name
                            /\ checksTbl[r].kind = rets[i].kind}) = 1

C6_Witness ==
    \E i, j, k \in DOMAIN rets :
        /\ i < j /\ j < k
        /\ rets[i].name = rets[j].name /\ rets[i].kind = rets[j].kind
        /\ rets[i].name = rets[k].name /\ rets[i].kind = rets[k].kind
        /\ rets[i].res = rets[k].res
        /\ Len(checksTbl) = 2

(* C7: concurrent callers of materialize for one pair all get the same id, *)
(* and the pair has one row, not several.                                  *)
C7_ConcurrentSameId ==
    /\ \A i, j \in DOMAIN rets :
          (rets[i].name = rets[j].name /\ rets[i].kind = rets[j].kind)
          => (rets[i].res # None /\ rets[i].res = rets[j].res)
    /\ \A r, q \in DOMAIN checksTbl :
          (checksTbl[r].name = checksTbl[q].name /\ checksTbl[r].kind = checksTbl[q].kind)
          => r = q

(* C8: a call whose insert was rejected as a duplicate returns the id of   *)
(* the row that is there, not an error.                                    *)
C8_DuplicateInsertRereads ==
    \A i \in DOMAIN rets :
        rets[i].dup => rets[i].res = Lookup(checksTbl, rets[i].name, rets[i].kind)

(* C11: check_loop has no terminal state.  It is never in the state        *)
(* "returned", whatever the probes and the writes do, and the only steps   *)
(* it takes are idle -> await (tick start, fan-out), await -> sleep (all   *)
(* tasks joined) and sleep -> idle.                                        *)
C11_LoopNeverReturns ==
    /\ [](spc \in {"idle", "await", "sleep"})
    /\ [][spc' # spc =>
            \/ spc = "idle" /\ spc' = "await"
            \/ spc = "await" /\ spc' = "sleep"
            \/ spc = "sleep" /\ spc' = "idle"]_vars

C11_Witness ==
    /\ tick = 2
    /\ spc = "sleep"
    /\ \E c, d \in Checks :
          /\ T(1, c).res = "err"
          /\ T(1, d).res = "panic"
          /\ T(2, c).res = "panic"
          /\ T(2, d).res = "err"

----------------------------------------------------------------------------
(* Properties of the metrics query. *)

Answered == resp.status # "none"

(* C12: a query whose resolved window has end <= start is answered with    *)
(* the invalid-range error, whether or not the datastore is available, and *)
(* with no rollup; a last of zero is such a query.                         *)
C12_InvalidRangeRejected ==
    (Answered /\ (WindowOf(req).end <= WindowOf(req).start \/ req.last = Some(0)))
    => /\ resp.status = "bad_request"
       /\ resp.rows = <<>>
       /\ resp.series = <<>>

C12_Witness ==
    /\ resp.status = "bad_request"
    /\ req.last = Some(0)
    /\ req.start # None
    /\ Len(records) = MaxRows

(* C14: the bucket width of an answered query is 1 s when the window is at *)
(* most 600 s, 600 s included, and 5 s when it is larger, and every bucket *)
(* start is a multiple of that width.                                      *)
C14_WidthByWindow ==
    resp.status = "ok"
    => /\ resp.res = IF resp.end - resp.start <= 600 * Subsec THEN 1 ELSE 5
       /\ \A i \in DOMAIN resp.rows : resp.rows[i].bucket % resp.res = 0

C14_Witness ==
    /\ resp.status = "ok"
    /\ resp.end - resp.start = 600 * Subsec
    /\ resp.res = 1
    /\ Len(resp.rows) >= 2

(* The records of check id that lie in the window [start, end) of the      *)
(* answer, and the number of records the answer counts for the check.      *)
InAnswerWindow(i) ==
    Secs(records[i].epoch) >= resp.start /\ Secs(records[i].epoch) < resp.end

WindowRecords(id) == {i \in DOMAIN records : records[i].check_id = id /\ InAnswerWindow(i)}

RECURSIVE SumCounts(_, _)
SumCounts(rows, id) ==
    IF rows = <<>> THEN 0
    ELSE (IF Head(rows).id = id THEN Head(rows).count ELSE 0) + SumCounts(Tail(rows), id)

(* C13: the answer counts, for every check, exactly its records with       *)
(* start <= epoch < end: a record at start is counted, a record at end is  *)
(* not.                                                                    *)
C13_HalfOpenWindow ==
    resp.status = "ok"
    => \A id \in IdentityIds : SumCounts(resp.rows, id) = Cardinality(WindowRecords(id))

(* C15: every record in the window [start, end) has the bucket             *)
(* epoch - (epoch mod width) of its own check in the answer, every bucket  *)
(* start is a multiple of the width, every bucket counts the records of    *)
(* its check in the window that fall in [bucket, bucket + width), and so   *)
(* the counts of a check sum to the number of its records in the window.   *)
C15_BucketAssignment ==
    resp.status = "ok"
    => /\ \A i \in DOMAIN records :
             InAnswerWindow(i)
             => \E k \in DOMAIN resp.rows :
                   /\ resp.rows[k].id = records[i].check_id
                   /\ resp.rows[k].bucket = records[i].epoch - (records[i].epoch % resp.res)
       /\ \A k \in DOMAIN resp.rows :
             /\ resp.rows[k].bucket % resp.res = 0
             /\ resp.rows[k].count =
                   Cardinality({i \in WindowRecords(resp.rows[k].id) :
                                   /\ resp.rows[k].bucket <= records[i].epoch
                                   /\ records[i].epoch < resp.rows[k].bucket + resp.res})
       /\ \A id \in IdentityIds :
             SumCounts(resp.rows, id) = Cardinality(WindowRecords(id))

(* C16: for every bucket of the answer that lies inside the window, count  *)
(* is the number of the records of its check in the bucket, errs the       *)
(* number of those with an error, and min, avg and max are those of the    *)
(* latencies of the records without an error (absent when there is none).  *)
(* The example: 10 ms and 30 ms at epoch 100 and an error at epoch 101,    *)
(* queried over [100, 102), give bucket 100 {10, 20, 30, count 2, errs 0}  *)
(* and bucket 101 {count 1, errs 1}, and nothing else.                     *)
C16_BucketAggregates ==
    resp.status = "ok"
    => \A k \in DOMAIN resp.rows :
          LET row == resp.rows[k]
              mem == {i \in DOMAIN records :
                         /\ records[i].check_id = row.id
                         /\ row.bucket <= records[i].epoch
                         /\ records[i].epoch < row.bucket + resp.res}
              oks == {i \in mem : records[i].err = None}
              lat(i) == UnwrapOr(records[i].ms, 0)
          IN  (Secs(row.bucket) >= resp.start /\ Secs(row.bucket + resp.res) <= resp.end)
              => /\ row.count = Cardinality(mem)
                 /\ row.errs = Cardinality(mem \ oks)
                 /\ oks = {} => (row.min = None /\ row.avg = None /\ row.max = None)
                 /\ oks # {} =>
                       /\ \E i \in oks : row.min = Some(lat(i))
                       /\ \E i \in oks : row.max = Some(lat(i))
                       /\ \A i \in oks : UnwrapOr(row.min, 0) <= lat(i)
                       /\ \A i \in oks : UnwrapOr(row.max, 0) >= lat(i)
                       /\ row.avg # None
                       /\ UnwrapOr(row.avg, 0) * Cardinality(oks) <= SumMs(oks)
                       /\ SumMs(oks) < (UnwrapOr(row.avg, 0) + 1) * Cardinality(oks)

C16_Witness ==
    /\ resp.status = "ok"
    /\ resp.res = 1
    /\ resp.start = Secs(100) /\ resp.end = Secs(102)
    /\ Len(records) = 3
    /\ \E c \in IdentityIds :
          /\ records[1] = [check_id |-> c, epoch |-> 100, ms |-> Some(10), err |-> None]
          /\ records[2] = [check_id |-> c, epoch |-> 100, ms |-> Some(30), err |-> None]
          /\ records[3].check_id = c /\ records[3].epoch = 101 /\ records[3].err # None
          /\ Len(resp.rows) = 2
          /\ resp.rows[1].bucket = 100
          /\ resp.rows[1].min = Some(10) /\ resp.rows[1].avg = Some(20)
          /\ resp.rows[1].max = Some(30)
          /\ resp.rows[1].count = 2 /\ resp.rows[1].errs = 0
          /\ resp.rows[2].bucket = 101
          /\ resp.rows[2].count = 1 /\ resp.rows[2].errs = 1

(* C17: the rows of the rollup come in strictly ascending order of         *)
(* (bucket, name, kind).                                                   *)
C17_RowsOrdered ==
    \A i, j \in DOMAIN resp.rows :
        i < j =>
           LET a == resp.rows[i]
               b == resp.rows[j]
           IN  \/ a.bucket < b.bucket
               \/ a.bucket = b.bucket /\ Collate(a.name) < Collate(b.name)
               \/ /\ a.bucket = b.bucket
                  /\ Collate(a.name) = Collate(b.name)
                  /\ Collate(a.kind) < Collate(b.kind)

C17_Witness ==
    /\ resp.status = "ok"
    /\ Len(resp.rows) = 3
    /\ resp.rows[1].bucket = resp.rows[2].bucket
    /\ resp.rows[1].name = "bar" /\ resp.rows[2].name = "foo"
    /\ resp.rows[1].id > resp.rows[2].id
    /\ resp.rows[3].bucket > resp.rows[2].bucket
    /\ resp.rows[3].id < resp.rows[1].id

----------------------------------------------------------------------------
(* Properties of the records. *)

(* C18: every record has exactly one of latency and error: a row written   *)
(* by mark_ok has a latency and no error, a row written by mark_err has an *)
(* error and no latency.                                                   *)
C18_LatencyXorError ==
    \A i \in DOMAIN records : (records[i].ms = None) # (records[i].err = None)

C18_Witness ==
    /\ Len(records) = 4
    /\ \E i, j \in DOMAIN records :
          /\ records[i].check_id = records[j].check_id
          /\ records[i].ms # None /\ records[i].err = None
          /\ records[j].ms = None /\ records[j].err # None

(* C19: records are append-only.  Every step leaves the records there are  *)
(* as they are, and a step of the query path changes neither the records   *)
(* nor the identities.                                                     *)
C19_AppendOnly ==
    [][/\ Len(records') >= Len(records)
       /\ \A i \in DOMAIN records : records'[i] = records[i]
       /\ resp' # resp => (records' = records /\ checksTbl' = checksTbl)]_vars

C19_Witness ==
    /\ resp.status = "ok"
    /\ req.last = Some(Secs(2))
    /\ Len(records) = MaxRows
    /\ Len(resp.series) = 2

(* C20: the row a task writes holds the outcome as it was: the check's id, *)
(* the time of the write, and either the measured latency or the outcome's *)
(* error message, unchanged.                                               *)
C20_RoundTrip ==
    [][\A n \in Ticks, c \in Checks :
          (T(n, c).pc = "writing" /\ task'[n][c].pc = "finished" /\ task'[n][c].res = "ok")
          => /\ Len(records') = Len(records) + 1
             /\ records'[Len(records')] =
                   [check_id |-> c,
                    epoch |-> clock,
                    ms |-> IF T(n, c).out = "ok" THEN Some(T(n, c).ms) ELSE None,
                    err |-> IF T(n, c).out = "ok" THEN None ELSE Some(T(n, c).out)]]_vars

----------------------------------------------------------------------------
(* The outcome of a probe. *)

(* C21: when the response of an http attempt has a status other than the  *)
(* code the check expects, the row the attempt writes is an error row: it  *)
(* has an error message and no latency.                                    *)
C21_UnexpectedStatusIsError ==
    \A n \in Ticks, c \in Checks :
        (T(n, c).pc = "writing" /\ T(n, c).code = "other")
        => LET rows == OutcomeRows(c, T(n, c), clock)
           IN  \A i \in DOMAIN rows : rows[i].err # None /\ rows[i].ms = None

----------------------------------------------------------------------------
(* Setup. *)

(* The check built for a configured entry, with the id the checks table    *)
(* holds for it.                                                           *)
BuiltFor(e) ==
    {i \in DOMAIN checks :
        /\ checks[i].kind = e.kind
        /\ checks[i].name = e.name
        /\ Some(checks[i].id) = Lookup(checksTbl, e.name, e.kind)}

(* C22: when materialize (or the build) fails for an entry, Checker::new   *)
(* fails and no tick ever runs; a Checker that new returned has exactly    *)
(* one check, with the id of its identity, for every configured entry      *)
(* (none was skipped), and ticks run only on such a Checker.               *)
C22_SetupFailureStopsAll ==
    /\ [](phase = "failed" => tick = 0 /\ records = <<>>)
    /\ []((\E i \in DOMAIN rets : rets[i].res = None) => phase = "failed")
    /\ [](phase = "ready" /\ Entries # {}
            => /\ \A e \in Entries : Cardinality(BuiltFor(e)) = 1
               /\ Len(checks) = Cardinality(Entries))
    /\ [][tick' # tick
            => /\ phase = "ready"
               /\ \A e \in Entries : BuiltFor(e) # {}]_vars

C22_Witness ==
    /\ phase = "failed"
    /\ Len(checks) = 1
    /\ Len(rets) = 2
    /\ rets[2].res = None
    /\ Cardinality(Entries) = 3

(* C37: a Checker that new returned has as many checks as there are http   *)
(* entries and ping entries together, one for every entry; a name          *)
(* configured under both kinds has two checks, with different ids; and     *)
(* the id of every check is the one materialize returned for the (name,    *)
(* kind) of that check, the id of its row in the checks table.             *)
C37_OneCheckPerEntry ==
    phase = "ready"
    => /\ Len(checks) = Cardinality(config.http) + Cardinality(config.ping)
       /\ \A x \in config.http :
             \E i \in DOMAIN checks : checks[i].kind = "http" /\ checks[i].name = x
       /\ \A x \in config.ping :
             \E i \in DOMAIN checks : checks[i].kind = "ping" /\ checks[i].name = x
       /\ \A i, j \in DOMAIN checks : i # j => checks[i].id # checks[j].id
       /\ \A i \in DOMAIN checks :
             /\ \E j \in DOMAIN rets :
                   /\ rets[j].name = checks[i].name
                   /\ rets[j].kind = checks[i].kind
                   /\ rets[j].res = Some(checks[i].id)
             /\ \E j \in DOMAIN checksTbl :
                   /\ checksTbl[j].id = checks[i].id
                   /\ checksTbl[j].name = checks[i].name
                   /\ checksTbl[j].kind = checks[i].kind

C37_Witness ==
    /\ phase = "ready"
    /\ config.http = {"foo"}
    /\ config.ping = {"foo", "bar"}
    /\ Len(checks) = 3
    /\ Len(checksTbl) = 3
    /\ tick = 1

(* C29: Checker::new calls materialize once per configured entry, and the  *)
(* id of a check is the id that call returned; a tick calls materialize    *)
(* for nothing, leaves the checks table and the checks as they are, and    *)
(* every record it writes carries the id of one of the checks, the id the  *)
(* checks table holds for that check.                                      *)
C29_IdFromSetup ==
    /\ [](/\ ncalls = Cardinality(done)
          /\ Len(rets) = ncalls
          /\ \A i, j \in DOMAIN rets :
                i # j => rets[i].name # rets[j].name \/ rets[i].kind # rets[j].kind)
    /\ [](\A i \in DOMAIN checks :
             \E j \in DOMAIN rets :
                /\ rets[j].name = checks[i].name
                /\ rets[j].kind = checks[i].kind
                /\ rets[j].res = Some(checks[i].id))
    /\ [][tick' # tick
            => /\ UNCHANGED <<checksTbl, nextId, rets, ncalls, checks>>
               /\ \A r \in (Len(records) + 1)..Len(records') :
                     \E i \in DOMAIN checks :
                        /\ records'[r].check_id = checks[i].id
                        /\ Some(checks[i].id)
                              = Lookup(checksTbl, checks[i].name, checks[i].kind)]_vars

C29_Witness ==
    /\ tick = MaxTicks
    /\ Len(checks) = 2
    /\ checks[1].id = 2
    /\ checks[2].id = 1
    /\ Len(records) = 4
    /\ records[1].check_id = 2
    /\ records[4].check_id = 1

(* C23: when a task whose probe failed (timeout, lookup failure, transport *)
(* failure, unexpected status) ends its write, it has written an error     *)
(* row and returned Ok; a task returns an error only when its write        *)
(* failed, and then it wrote nothing.                                      *)
C23_ProbeFailureIsRecorded ==
    [][\A n \in Ticks, c \in Checks :
          (T(n, c).pc = "writing" /\ task'[n][c].pc = "finished")
          => LET failed == T(n, c).out # "ok" \/ T(n, c).code = "other"
             IN  /\ task'[n][c].res = "err" => records' = records
                 /\ task'[n][c].res = "ok"
                       => /\ Len(records') = Len(records) + 1
                          /\ failed => /\ records'[Len(records')].err # None
                                       /\ records'[Len(records')].ms = None]_vars

----------------------------------------------------------------------------
(* The identity store, one caller at a time. *)

(* The (name, kind) pairs materialized by the first i calls. *)
PairsUpTo(i) == {<<rets[j].name, rets[j].kind>> : j \in 1..i}

(* The first call that materialized the pair of call i. *)
FirstCallOf(i) ==
    CHOOSE j \in 1..i :
        /\ rets[j].name = rets[i].name /\ rets[j].kind = rets[i].kind
        /\ \A l \in 1..(j - 1) : rets[l].name # rets[i].name \/ rets[l].kind # rets[i].kind

(* C24: on a fresh store, calls made one after the other return the ids    *)
(* 1, 2, 3, .. in the order in which the (name, kind) pairs were first     *)
(* materialized; two calls for different pairs, the same name under two    *)
(* kinds included, never return the same id.                               *)
C24_DistinctIdsInOrder ==
    /\ \A i \in DOMAIN rets :
          rets[i].res = Some(Cardinality(PairsUpTo(FirstCallOf(i))))
    /\ \A i, j \in DOMAIN rets :
          (rets[i].name # rets[j].name \/ rets[i].kind # rets[j].kind)
          => rets[i].res # rets[j].res

C24_Witness ==
    /\ Len(rets) = 4
    /\ rets[1].name = "foo" /\ rets[1].kind = "http" /\ rets[1].res = Some(1)
    /\ rets[2].name = "foo" /\ rets[2].kind = "http" /\ rets[2].res = Some(1)
    /\ rets[3].name = "bar" /\ rets[3].kind = "http" /\ rets[3].res = Some(2)
    /\ rets[4].name = "foo" /\ rets[4].kind = "ping" /\ rets[4].res = Some(3)

----------------------------------------------------------------------------
(* The address of a ping. *)

(* C25: a ping whose host is a literal address is never resolved and its   *)
(* echo request goes to that address; a ping whose host is a name sends    *)
(* its echo request to the first IPv4 address of the lookup's result; when *)
(* the result holds no IPv4 address the attempt fails with "no ip for      *)
(* host", when the lookup fails it fails with "lookup host", and in both   *)
(* cases no echo request is sent.                                          *)
C25_PingAddressChoice ==
    \A n \in Ticks, c \in Checks :
        LET s == T(n, c) IN
        /\ kind[c] = "ping_ip"
              => /\ s.pc # "resolving"
                 /\ s.ips = None
                 /\ s.pc = "probing" => s.addr = "literal"
        /\ kind[c] = "ping_host"
              => /\ s.pc = "probing"
                       => \E r \in s.ips : \E i \in DOMAIN r.addrs :
                             /\ r.ok
                             /\ IsIpv4(r.addrs[i])
                             /\ \A j \in 1..(i - 1) : ~IsIpv4(r.addrs[j])
                             /\ s.addr = r.addrs[i]
                 /\ \A r \in s.ips :
                       ~r.ok => s.pc = "writing" /\ s.out = "lookup host"
                 /\ \A r \in s.ips :
                       (r.ok /\ \A i \in DOMAIN r.addrs : ~IsIpv4(r.addrs[i]))
                       => s.pc = "writing" /\ s.out = "no ip for host"

C25_Witness ==
    \E c, d \in Checks :
        /\ kind[c] = "ping_host" /\ kind[d] = "ping_host"
        /\ T(1, c).pc = "probing" /\ T(1, c).addr = "v4a"
        /\ T(1, d).pc = "writing" /\ T(1, d).out = "no ip for host"

----------------------------------------------------------------------------
(* The window of a query. *)

(* C26: an answered query that carries last = N has the window             *)
(* [now - N, now) whatever start and end it also carries; without last,    *)
(* the window starts at the start supplied, or one hour before now, and    *)
(* ends at the end supplied, or now.                                       *)
C26_WindowResolution ==
    resp.status = "ok"
    => IF req.last # None
       THEN /\ \A n \in req.last : resp.start = req.now - n
            /\ resp.end = req.now
       ELSE /\ \A s \in req.start : resp.start = s
            /\ req.start = None => resp.start = req.now - 3600 * Subsec
            /\ \A e \in req.end : resp.end = e
            /\ req.end = None => resp.end = req.now

C26_Witness ==
    /\ resp.status = "ok"
    /\ req.last = None /\ req.start = None /\ req.end = None
    /\ resp.res = 5
    /\ Len(resp.rows) > 0

----------------------------------------------------------------------------
(* Connections of the pool. *)

(* The attempts inside a unit of work: the write of their record. *)
UnitsInProgress == {a \in Attempts : T(a[1], a[2]).pc = "writing"}

(* C27: a connection is held only by an attempt that is writing its        *)
(* record: none is held by an attempt that waits on its lookup, its probe  *)
(* or its timeout, none while the loop sleeps, and the connections held    *)
(* never outnumber the units of work in progress.                          *)
C27_ConnectionPerUnit ==
    /\ conns \subseteq UnitsInProgress
    /\ \A a \in Attempts :
          T(a[1], a[2]).pc \in {"spawned", "resolving", "probing", "ready", "finished", "joined"}
          => a \notin conns
    /\ Cardinality(conns) <= Cardinality(UnitsInProgress)
    /\ spc = "sleep" => conns = {}

C27_Witness ==
    \E c, d \in Checks :
        /\ conns = {<<1, c>>}
        /\ T(1, c).pc = "writing"
        /\ T(1, d).pc = "probing"

----------------------------------------------------------------------------
(* Blocking work of the ping probe. *)

(* C28: while the lookup of a ping attempt is blocked, the timeout of that *)
(* attempt still fires when the interval has elapsed (the attempt is not   *)
(* found blocked after its deadline), and a sibling task that is ready to  *)
(* run has a worker thread to run on.                                      *)
C28_BlockingOffWorker ==
    \A n \in Ticks, c \in Checks :
        T(n, c).pc = "resolving"
        => /\ clock <= T(n, c).deadline
           /\ \A d \in Checks : T(n, d).pc \in {"spawned", "ready"} => WorkerFree

----------------------------------------------------------------------------
(* Termination of a tick. *)

(* C30: a tick that awaits its tasks eventually reaches its sleep, whether *)
(* or not the probes and lookups of its tasks ever return.                 *)
C30_TickReachesSleep == (spc = "await") ~> (spc = "sleep")

----------------------------------------------------------------------------
(* The series of the metrics response. *)

(* The latencies of the successful records of the check (name, kind) in    *)
(* the bucket of width res that starts at ts.                              *)
BucketLatencies(name, k, ts, res) ==
    {UnwrapOr(records[i].ms, 0) :
        i \in {j \in DOMAIN records :
                 /\ records[j].ms # None
                 /\ Some(records[j].check_id) = Lookup(checksTbl, name, k)
                 /\ ts <= Secs(records[j].epoch)
                 /\ Secs(records[j].epoch) < ts + Secs(res)}}

RowsOfPair(name, k) ==
    {r \in DOMAIN resp.rows : resp.rows[r].name = name /\ resp.rows[r].kind = k}

(* C38: the response holds at most one series per (name, kind); the        *)
(* series stand in the order in which their pairs first occur in the rows  *)
(* (a new series is appended after the existing ones), and the values of   *)
(* a series are those pushed for the rows of its pair, one per row and in  *)
(* the order of the rows: no call changed a value already there.           *)
C38_OneSeriesPerPair ==
    resp.status = "ok"
    => /\ \A s, t \in DOMAIN resp.series :
             (resp.series[s].name = resp.series[t].name
                /\ resp.series[s].kind = resp.series[t].kind) => s = t
       /\ \A r \in DOMAIN resp.rows :
             \E s \in DOMAIN resp.series :
                resp.series[s].name = resp.rows[r].name
                   /\ resp.series[s].kind = resp.rows[r].kind
       /\ \A s \in DOMAIN resp.series :
             LET mine == RowsOfPair(resp.series[s].name, resp.series[s].kind)
                 vals == resp.series[s].values
             IN  /\ mine # {}
                 /\ Len(vals) = Cardinality(mine)
                 /\ \A r \in mine :
                       vals[Cardinality({q \in mine : q <= r})] = TimeValue(resp.rows[r])
                 /\ \A t \in DOMAIN resp.series :
                       s < t => \E r \in mine :
                                   \A q \in RowsOfPair(resp.series[t].name,
                                                       resp.series[t].kind) : r < q

C38_Witness ==
    /\ resp.status = "ok"
    /\ Len(resp.series) = 2
    /\ resp.series[1].name = "foo" /\ resp.series[1].kind = "http"
    /\ resp.series[2].name = "foo" /\ resp.series[2].kind = "ping"
    /\ Len(resp.series[1].values) = 2
    /\ Len(resp.series[2].values) = 1
    /\ resp.rows[2].kind = "ping"

(* C39: the values of every series of the response are in strictly         *)
(* increasing order of bucket start, and every row of the rollup, one per  *)
(* (check, bucket), is one value of one series: the response holds as many *)
(* values as the rollup has rows.                                          *)
C39_StrictlyIncreasingBuckets ==
    resp.status = "ok"
    => /\ \A s \in DOMAIN resp.series :
             \A i, j \in DOMAIN resp.series[s].values :
                i < j => resp.series[s].values[i].ts < resp.series[s].values[j].ts
       /\ \A r \in DOMAIN resp.rows :
             Cardinality({<<s, i>> \in (DOMAIN resp.series) \X (1..MaxRows) :
                             /\ i \in DOMAIN resp.series[s].values
                             /\ resp.series[s].name = resp.rows[r].name
                             /\ resp.series[s].kind = resp.rows[r].kind
                             /\ resp.series[s].values[i].ts = Secs(resp.rows[r].bucket)}) = 1
       /\ \A q, r \in DOMAIN resp.rows :
             (resp.rows[q].id = resp.rows[r].id /\ resp.rows[q].bucket = resp.rows[r].bucket)
             => q = r

C39_Witness ==
    /\ resp.status = "ok"
    /\ Len(resp.rows) = 3
    /\ Len(resp.series) = 1
    /\ resp.series[1].values[1].ts = Secs(QueryFirstEpoch)
    /\ resp.series[1].values[2].ts = Secs(QueryFirstEpoch + 1)
    /\ resp.series[1].values[3].ts = Secs(QueryFirstEpoch + 2)

----------------------------------------------------------------------------
(* The scheduler of main.rs. *)

(* C32: whenever check_all of main.rs ends, every task of the tick has     *)
(* been joined, whatever it returned, and run goes on to its sleep; no     *)
(* task is ever aborted and run never returns.                             *)
C32_MainFailureIsolated ==
    /\ [](spc # "returned")
    /\ [](\A n \in Ticks, c \in Checks : T(n, c).pc # "aborted")
    /\ [][(spc = "await" /\ spc' # "await")
            => /\ spc' = "sleep"
               /\ \A c \in Checks : T(tick, c).pc = "joined"]_vars

(* C33: when check_all of main.rs returns, run sleeps for the interval     *)
(* less the time check_all took, and not at all when it took longer; a     *)
(* tick whose predecessor took no longer than the interval starts one      *)
(* interval after it.                                                      *)
C33_MainSleepIsRemainder ==
    /\ [][(spc = "await" /\ spc' = "sleep")
            => /\ sleepDur' = Max(0, interval - (clock - now))
               /\ wake' = clock + sleepDur']_vars
    /\ [][(tick >= 1 /\ tick' = tick + 1 /\ elapsed <= interval)
            => clock = now + interval]_vars

(* C34: a task of main.rs that ends with a probe outcome (a response, a    *)
(* request error, a ping result or a timeout) and whose storage works has  *)
(* added exactly one row and has returned Ok; the row of a timeout is a    *)
(* timeout error.                                                          *)
C34_MainOneRowPerOutcome ==
    [][\A n \in Ticks, c \in Checks :
          (T(n, c).pc \in {"spawned", "probing", "ready"}
             /\ task'[n][c].pc = "finished" /\ task'[n][c].res # "err")
          => /\ task'[n][c].res = "ok"
             /\ Len(records') = Len(records) + 1
             /\ records'[Len(records')].check_name = c
             /\ T(n, c).pc = "probing"
                   => records'[Len(records')].error = Some("timeout")]_vars

----------------------------------------------------------------------------
(* The recorder of db.rs. *)

(* C35: every call of record_http and of record_ping made while the        *)
(* storage is available, for a success and for an error of any kind, adds  *)
(* exactly one row, to the table of its kind and under the name of its     *)
(* check, and returns Ok.                                                  *)
C35_RecordAddsOneRow ==
    /\ \A i \in DOMAIN rets :
          rets[i].dbok => rets[i].ret = "ok" /\ rets[i].added = 1
    /\ (\A i \in DOMAIN rets : rets[i].dbok)
          => /\ Len(records) = Len(rets)
             /\ \A i \in DOMAIN rets :
                   /\ records[i].table
                         = (IF rets[i].fn = "record_http" THEN "http_resp" ELSE "ping_resp")
                   /\ records[i].cols[1] = <<"check_name", rets[i].name>>

(* C36: App::run returns as soon as the first of its two background tasks  *)
(* has finished or panicked: from then on its return is enabled whatever   *)
(* the other task is doing.  It returns only after a task has ended, never *)
(* Ok, and with the error of the task that ended first (the error the task *)
(* returned, or the panic).                                                *)
C36_RunReturnsFirstError ==
    /\ (app.pc = "joining" /\ app.order # <<>>) => ENABLED AppJoinNext
    /\ app.pc # "returned" => app.ret = None
    /\ app.pc = "returned"
          => /\ app.order # <<>>
             /\ app.ret # None
             /\ \A r \in app.ret :
                   /\ ~r.ok
                   /\ r.err # <<>>
                   /\ LET t == app[app.order[1]]
                      IN  IF t.pc = "panicked" THEN r.err[1] = "panic!"
                          ELSE /\ t.pc = "finished"
                               /\ t.val = Some(r.err)
                               /\ r.err[1] \in {"checker failed", "api failed"}

(* App::run has returned the api's error while the checker, with both of   *)
(* its own tasks running, was still waiting: the checker was not awaited.  *)
C36_Witness ==
    /\ app.pc = "returned"
    /\ app.order = <<"api">>
    /\ app.ret = Some(Err(<<"api failed", "axum failed", "io">>))
    /\ app.checker.pc = "aborted"
    /\ app.listen = "aborted" /\ app.loop = "aborted"

====
